---- MODULE Spec2Model ----
(***************************************************************************)
(* A model of the goal tree view of doto (src/src/components/              *)
(* GoalTreeView.tsx) together with the parts of the application context    *)
(* (src/src/context/AppContext.tsx) and of the AI service                  *)
(* (src/src/services/aiService.ts) that its handlers call.                 *)
(*                                                                         *)
(* Spec        the interaction machine: the data tree (data.goals), the    *)
(*             view tree (treeData), the modal forms, the in-flight AI     *)
(*             calls and the clock that Date.now() reads.                  *)
(* SpecLayout  the layout functions (calculateTreeDimensions and           *)
(*             collectPositions / renderNode) applied to bounded view      *)
(*             trees with every combination of flags.                      *)
(* SpecTree    the handlers that add and delete nodes, with room for the   *)
(*             nodes a late AI response brings back.                       *)
(* SpecAi      generateSubtasks with every outcome of callOpenAI.          *)
(* SpecView    the viewport: wheel, zoom buttons, reset, fit, focus.       *)
(* SpecWheel   the wheel guard in steps of 10 ms, reset and fit.           *)
(* SpecWheelLive  SpecWheel where time passes and due timers run.          *)
(* SpecKeys    the keydown listener of the focused view.                   *)
(* SpecFocus   the keydown listener with its delayed focus timers.         *)
(* SpecSave    saveData and the time-boxed update of the gist.             *)
(* SpecFlush   setDataWithSave followed by the data-change effect.         *)
(*                                                                         *)
(* A handler is one action.  A handler that calls setData is followed, in  *)
(* the same action, by the effects React runs before the next event: the   *)
(* data-change effect of AppContext (a second saveData) and the            *)
(* [goal, id, showCompletedNodes] effect of GoalTreeView that rebuilds     *)
(* treeData from the new goal.                                             *)
(***************************************************************************)
EXTENDS Integers, Sequences, FiniteSets, TLC

-----------------------------------------------------------------------------
(* Bounds of the model. *)

\* nodes of the viewed goal's tree (root included)
MaxNodes == 3
\* last value the clock read by Date.now() takes
MaxTime == 1
\* AI calls in flight at once
MaxCalls == 1
\* largest subtask count typed into the AI form
MaxCount == 1
\* setData calls made while an AI call waits
MaxStale == 1
\* SpecLayout: children of the root of the view trees laid out
MaxKids == 3
MaxAsked == 3        \* subtasks asked of generateSubtasks in one call
MaxAge == 150        \* ms after which the age of a wheel event is not counted on
MaxPresses == 1      \* presses of the zoom buttons in one behaviour
MaxSaveClock == 1600002  \* the clock of the save machine stops here
MaxFlushes == 1      \* updateGist calls awaiting their response
MaxTimers == 1       \* delayed focus calls waiting at one time
MaxInFlight == 2     \* SpecFlush: updateGist calls awaiting their response
MaxPending == 2      \* SpecFocus: delayed focus calls waiting at one time

-----------------------------------------------------------------------------
(* Program constants. *)

nodeSpacing == 500
levelSpacing == 300
nodeWidth == 320
minimizedSlot == 100
minSubtreeWidth == 350
defaultAiCount == 3
rootX == 0
rootY == 100
debounceMs == 150
fiveMinutes == 300000

-----------------------------------------------------------------------------
(* Values. Strings are sequences of one-character strings so that trim()  *)
(* is computed, ids are tuples built the way the template literals build  *)
(* them.                                                                   *)

NoId == <<>>
GoalId == <<"goal", 1>>
ChildId(t) == <<"child", t>>
AiId(t, index) == <<"ai", t, index>>

Whitespace == {" "}

RECURSIVE TrimStart(_)
TrimStart(s) ==
  IF s # <<>> /\ Head(s) \in Whitespace THEN TrimStart(Tail(s)) ELSE s

RECURSIVE TrimEnd(_)
TrimEnd(s) ==
  IF s # <<>> /\ s[Len(s)] \in Whitespace
    THEN TrimEnd(SubSeq(s, 1, Len(s) - 1)) ELSE s

TrimIdentity(s) == s

Trim(s) == TrimEnd(TrimStart(s))

\* the titles a user types into the add-child form
FormTitles == { <<" ">>, <<"a">> }
\* the titles a user types into the edit modal
EditTitles == { <<" ">>, <<"b">> }
TheDescription == <<"d">>

Range(s) == { s[i] : i \in DOMAIN s }

RECURSIVE Concat(_)
Concat(ss) == IF ss = <<>> THEN <<>> ELSE Head(ss) \o Concat(Tail(ss))

RECURSIVE SumSeq(_)
SumSeq(s) == IF s = <<>> THEN 0 ELSE Head(s) + SumSeq(Tail(s))

Max(a, b) == IF a >= b THEN a ELSE b

-----------------------------------------------------------------------------
(* The data tree: Goal | Child = {id, title, description, childs, done}.   *)

NewNode(id, title, description) ==
  [id |-> id, title |-> title, description |-> description,
   childs |-> <<>>, done |-> 0]

InitGoal == NewNode(GoalId, <<"g">>, TheDescription)

RECURSIVE NodeCount(_)
NodeCount(node) ==
  1 + SumSeq([i \in DOMAIN node.childs |-> NodeCount(node.childs[i])])

\* ids of a data subtree in pre-order, with repetitions
RECURSIVE IdList(_)
IdList(node) ==
  <<node.id>> \o Concat([i \in DOMAIN node.childs |-> IdList(node.childs[i])])

ForestIdList(goals) == Concat([i \in DOMAIN goals |-> IdList(goals[i])])

\* paths (sequences of child indexes) of the nodes of a data subtree
RECURSIVE Paths(_)
Paths(node) ==
  { <<>> } \cup UNION { { <<i>> \o p : p \in Paths(node.childs[i]) }
                        : i \in DOMAIN node.childs }

RECURSIVE NodeAt(_, _)
NodeAt(node, p) ==
  IF p = <<>> THEN node ELSE NodeAt(node.childs[Head(p)], Tail(p))

IsPrefix(p, q) == Len(p) <= Len(q) /\ SubSeq(q, 1, Len(p)) = p

-----------------------------------------------------------------------------
(* Recursive id-addressed rewrites of the data tree.                       *)

RECURSIVE addChildToParent(_, _, _)
addChildToParent(items, parentId, newChild) ==
  [i \in DOMAIN items |->
     LET item == items[i] IN
     IF item.id = parentId
       THEN [item EXCEPT !.childs = Append(item.childs, newChild)]
       ELSE IF Len(item.childs) > 0
         THEN [item EXCEPT !.childs = addChildToParent(item.childs, parentId, newChild)]
         ELSE item]

RECURSIVE addSubtasksToParent(_, _, _)
addSubtasksToParent(items, parentId, subtasks) ==
  [i \in DOMAIN items |->
     LET item == items[i] IN
     IF item.id = parentId
       THEN [item EXCEPT !.childs = item.childs \o subtasks]
       ELSE IF Len(item.childs) > 0
         THEN [item EXCEPT !.childs = addSubtasksToParent(item.childs, parentId, subtasks)]
         ELSE item]

RECURSIVE deleteNodeFromTree(_, _)
deleteNodeFromTree(items, nodeId) ==
  LET kept == SelectSeq(items, LAMBDA item : item.id # nodeId) IN
  [i \in DOMAIN kept |->
     IF Len(kept[i].childs) > 0
       THEN [kept[i] EXCEPT !.childs = deleteNodeFromTree(kept[i].childs, nodeId)]
       ELSE kept[i]]

RECURSIVE updateNodeDoneStatus(_, _)
updateNodeDoneStatus(items, nodeId) ==
  [i \in DOMAIN items |->
     LET item == items[i] IN
     IF item.id = nodeId
       THEN [item EXCEPT !.done = IF item.done = 0 THEN 1 ELSE 0]
       ELSE IF Len(item.childs) > 0
         THEN [item EXCEPT !.childs = updateNodeDoneStatus(item.childs, nodeId)]
         ELSE item]

RECURSIVE updateNodeContent(_, _, _, _)
updateNodeContent(items, nodeId, title, description) ==
  [i \in DOMAIN items |->
     LET item == items[i] IN
     IF item.id = nodeId
       THEN [item EXCEPT !.title = title, !.description = description]
       ELSE IF Len(item.childs) > 0
         THEN [item EXCEPT !.childs =
                 updateNodeContent(item.childs, nodeId, title, description)]
         ELSE item]

\* data.goals.find(g => g.id === id): <<>> when there is none
FindGoal(goals, id) ==
  LET found == SelectSeq(goals, LAMBDA g : g.id = id) IN
  IF found = <<>> THEN <<>> ELSE <<Head(found)>>

-----------------------------------------------------------------------------
(* The view tree: TreeNode = {id, title, description, children, level,    *)
(* isCollapsed, isMinimized, done}.                                        *)

\* a view tree built with every node shown as not done
RECURSIVE buildTreeUndone(_, _)
buildTreeUndone(node, level) ==
  [id |-> node.id, title |-> node.title, description |-> node.description,
   children |-> [i \in DOMAIN node.childs |->
                   buildTreeUndone(node.childs[i], level + 1)],
   level |-> level, isCollapsed |-> FALSE, isMinimized |-> FALSE,
   done |-> 0]

RECURSIVE buildTree(_, _)
buildTree(node, level) ==
  [id |-> node.id, title |-> node.title, description |-> node.description,
   children |-> [i \in DOMAIN node.childs |-> buildTree(node.childs[i], level + 1)],
   level |-> level, isCollapsed |-> FALSE, isMinimized |-> FALSE,
   done |-> node.done]

\* the filter that lets every node through
filterNothing(node, showCompleted) == node

RECURSIVE filterTreeData(_, _)
filterTreeData(node, showCompleted) ==
  IF showCompleted
    THEN [node EXCEPT !.children =
            [i \in DOMAIN node.children |->
               filterTreeData(node.children[i], showCompleted)]]
    ELSE LET kept == SelectSeq(node.children, LAMBDA child : child.done = 0) IN
         [node EXCEPT !.children =
            [i \in DOMAIN kept |-> filterTreeData(kept[i], showCompleted)]]

\* first node with the id in pre-order, as <<node>>; <<>> stands for null
RECURSIVE findNode(_, _)
RECURSIVE findNodeIn(_, _)
findNodeIn(nodes, id) ==
  IF nodes = <<>> THEN <<>>
  ELSE LET found == findNode(Head(nodes), id) IN
       IF found # <<>> THEN found ELSE findNodeIn(Tail(nodes), id)
findNode(node, id) ==
  IF node.id = id THEN <<node>> ELSE findNodeIn(node.children, id)

areAllChildrenDoneAlways(node) == TRUE

RECURSIVE areAllChildrenDone(_)
areAllChildrenDone(node) ==
  IF Len(node.children) = 0 THEN TRUE
  ELSE \A i \in DOMAIN node.children :
         node.children[i].done = 1 /\ areAllChildrenDone(node.children[i])

RECURSIVE updateNodeCollapse(_, _, _)
updateNodeCollapse(node, nodeId, isChildToggle) ==
  IF node.id = nodeId
    THEN IF isChildToggle
           THEN [node EXCEPT !.isMinimized = ~node.isMinimized]
           ELSE [node EXCEPT !.isCollapsed = ~node.isCollapsed]
    ELSE [node EXCEPT !.children =
            [i \in DOMAIN node.children |->
               updateNodeCollapse(node.children[i], nodeId, isChildToggle)]]

\* minimizeAllChildren applied to every node with a listed id, whatever
\* its parent
RECURSIVE minimizeListedAnywhere(_, _, _)
minimizeListedAnywhere(node, parentId, childrenIds) ==
  [node EXCEPT
     !.children =
       [i \in DOMAIN node.children |->
          LET child == minimizeListedAnywhere(node.children[i], parentId,
                                              childrenIds)
          IN IF child.id \in childrenIds
               THEN [child EXCEPT !.isMinimized = TRUE] ELSE child]]

RECURSIVE updateChildrenVisibility(_, _, _)
updateChildrenVisibility(node, parentId, childrenIds) ==
  IF node.id = parentId
    THEN [node EXCEPT !.children =
            [i \in DOMAIN node.children |->
               IF node.children[i].id \in childrenIds
                 THEN [node.children[i] EXCEPT !.isMinimized = TRUE]
                 ELSE node.children[i]]]
    ELSE IF Len(node.children) > 0
      THEN [node EXCEPT !.children =
              [i \in DOMAIN node.children |->
                 updateChildrenVisibility(node.children[i], parentId, childrenIds)]]
      ELSE node

\* view nodes in pre-order
RECURSIVE ViewNodes(_)
ViewNodes(node) ==
  <<node>> \o Concat([i \in DOMAIN node.children |-> ViewNodes(node.children[i])])

\* the nodes renderNode draws as a full NodeElement: the root and, below a
\* drawn node that is not collapsed, its children that are not minimized
RECURSIVE RenderedNodes(_)
RenderedNodes(node) ==
  <<node>> \o
  (IF node.isCollapsed THEN <<>>
   ELSE Concat([i \in DOMAIN node.children |->
                  IF node.children[i].isMinimized THEN <<>>
                  ELSE RenderedNodes(node.children[i])]))

\* the children that renderNode draws a number indicator for (the line
\* control of a normal child, the stub of a minimized child)
LineControlIds(root) ==
  LET drawn == RenderedNodes(root) IN
  UNION { IF drawn[k].isCollapsed THEN {}
          ELSE { drawn[k].children[i].id : i \in DOMAIN drawn[k].children }
          : k \in DOMAIN drawn }

-----------------------------------------------------------------------------
(* The AI service: generateSubtasks and its fallback.                      *)

Digit(n) == CASE n = 0 -> "0" [] n = 1 -> "1" [] n = 2 -> "2" [] n = 3 -> "3"
              [] n = 4 -> "4" [] n = 5 -> "5" [] OTHER -> "9"

\* what callOpenAI can produce: a JSON array of so many {title, description}
\* items, a JSON value that is no array, a text that is no JSON, or a failed
\* call
AiResponses ==
  { [kind |-> "array", items |-> n] : n \in 0..(MaxAsked + 1) }
    \cup { [kind |-> "object", items |-> 0], [kind |-> "text", items |-> 0],
           [kind |-> "fail", items |-> 0] }

\* the outcome the interaction machine draws: an array that is one item long
\* (padded for a larger count), each item {title: "a", description: ""}
MainAiResponses == { [kind |-> "array", items |-> 1] }

generateMockSubtasks(description, count, t) ==
  [k \in 1..count |->
     [id |-> AiId(t, k - 1), title |-> <<"m", Digit(k)>>,
      description |-> description, childs |-> <<>>, done |-> 0]]

\* generateSubtasks without its final slice(0, count)
generateSubtasksUnsliced(description, count, response, t) ==
  IF response.kind = "array"
    THEN [k \in 1..Max(response.items, count) |->
            [id |-> AiId(t, k - 1),
             title |-> IF k <= response.items THEN <<"a">> ELSE <<"S", Digit(k)>>,
             description |-> IF k <= response.items THEN <<>> ELSE <<"A", Digit(k)>>,
             childs |-> <<>>, done |-> 0]]
    ELSE generateMockSubtasks(description, count, t)

generateSubtasks(description, count, response, t) ==
  IF response.kind = "array"
    THEN LET mapped == [k \in 1..response.items |->
                          [id |-> AiId(t, k - 1), title |-> <<"a">>,
                           description |-> <<>>,
                           childs |-> <<>>, done |-> 0]]
             padded == [k \in 1..Max(response.items, count) |->
                          IF k <= response.items THEN mapped[k]
                          ELSE [id |-> AiId(t, k - 1), title |-> <<"S", Digit(k)>>,
                                description |-> <<"A", Digit(k)>>,
                                childs |-> <<>>, done |-> 0]]
         IN SubSeq(padded, 1, count)
    ELSE generateMockSubtasks(description, count, t)

-----------------------------------------------------------------------------
(* State.                                                                  *)

VARIABLES
  data,               \* AppContext: data.goals
  stored,             \* localStorage[STORAGE_KEY], as goals
  now,                \* the clock Date.now() reads
  route,              \* "tree": /goal/:id is mounted; "home": it is not
  treeData,           \* <<TreeNode>>, or <<>> for null
  showCompletedNodes,
  newChildForm,
  aiSubtasksForm,
  deleteConfirm,
  editNodeModal,      \* with the EditNodeModal's own editedTitle and error
  aiCalls,            \* handleAiFormSubmit calls awaiting generateSubtasks
  fx,                 \* what the last handler did besides changing the state
  lpc, ltree, ldims, lpos,  \* SpecLayout
  scale, position,    \* the viewport: zoom factor and pan offset {x, y}
  isZooming,          \* the wheel guard
  wheelLog,           \* history: the age of the last accepted wheel event
  focusedNodeId,
  lastKey,            \* history: the last keydown event the listener got
  nodePositions,      \* the Map the positions effect fills, as a sequence
  timers,             \* setTimeout callbacks that have not run yet
  container,          \* getBoundingClientRect() of the container
  lastGistUpdate,     \* localStorage[LAST_GIST_UPDATE_KEY]
  gistCalls,          \* updateGist calls awaiting their response
  gist,               \* the content of the remote gist, as <<goals>>
  returned            \* what the function applied last returned

uiVars == <<route, treeData, showCompletedNodes, newChildForm, aiSubtasksForm,
            deleteConfirm, editNodeModal>>
mainVars == <<data, stored, now, uiVars, aiCalls, fx>>
layoutVars == <<lpc, ltree, ldims, lpos>>
viewVars == <<scale, position, isZooming, wheelLog, focusedNodeId, lastKey,
              nodePositions, timers, container>>
saveVars == <<lastGistUpdate, gistCalls, gist>>
auxVars == <<viewVars, saveVars, returned>>
vars == <<mainVars, layoutVars, auxVars>>

\* Every open of a form or modal assigns all of its fields and nothing reads
\* them while it is closed, so a closed form is kept as one value.
ClosedNewChildForm == [parentId |-> NoId, title |-> <<>>, description |-> <<>>,
                       isOpen |-> FALSE]
ClosedAiForm == [parentId |-> NoId, parentDescription |-> <<>>,
                 count |-> defaultAiCount, isOpen |-> FALSE, isLoading |-> FALSE]
ClosedDeleteConfirm == [isOpen |-> FALSE, nodeId |-> NoId]
ClosedEditModal == [isOpen |-> FALSE, nodeId |-> NoId, title |-> <<>>,
                    description |-> <<>>, editedTitle |-> <<>>, error |-> FALSE]

\* op: the handler; node: the node id it was called for, where the model
\* reads it; alert, toast, navigate: what it showed; saves: calls of saveData
Fx(op) == [op |-> op, node |-> NoId, alert |-> FALSE, toast |-> "none",
           saves |-> 0, navigate |-> FALSE]

\* a handler that changes view state only
ViewOnly == Fx("view")

\* setDataWithSave copies the data with JSON.parse(JSON.stringify(..)): the
\* copy has the same fields and new objects, so the goal the view reads is
\* a new object after every setData.
RECURSIVE DeepCopy(_)
DeepCopy(items) ==
  [i \in DOMAIN items |->
     [id |-> items[i].id, title |-> items[i].title,
      description |-> items[i].description,
      childs |-> DeepCopy(items[i].childs), done |-> items[i].done]]

\* the [goal, id, showCompletedNodes] effect: rebuilds treeData when there
\* is a goal, and leaves what the handler set when there is none
BuildTreeEffect(goals, showCompleted, fromHandler) ==
  LET goal == FindGoal(goals, GoalId) IN
  IF goal = <<>> THEN fromHandler
  ELSE <<filterTreeData(buildTree(goal[1], 0), showCompleted)>>

\* the goal of the current render
Goal == FindGoal(data, GoalId)

NoModal == /\ ~newChildForm.isOpen /\ ~aiSubtasksForm.isOpen
           /\ ~deleteConfirm.isOpen /\ ~editNodeModal.isOpen

RenderedIds ==
  IF treeData = <<>> THEN {}
  ELSE { n.id : n \in Range(RenderedNodes(treeData[1])) }

LayoutIdle ==
  /\ lpc = "off" /\ ltree = <<>> /\ ldims = <<>> /\ lpos = <<>>

\* The viewport, the keyboard focus, the remote flush and the function
\* results are not part of Spec, SpecTree and SpecLayout: they stay as here.
ViewIdle ==
  /\ scale = <<>> /\ position = <<>> /\ isZooming = FALSE /\ wheelLog = <<>>
  /\ focusedNodeId = NoId /\ nodePositions = <<>> /\ timers = <<>>
  /\ container = <<>> /\ lastKey = <<>>

SaveIdle ==
  /\ lastGistUpdate = 0 /\ gistCalls = <<>> /\ gist = <<>>

AuxIdle == ViewIdle /\ SaveIdle /\ returned = <<>>

\* /goal/:id freshly mounted on the stored goal
Mounted ==
  /\ data = <<InitGoal>>
  /\ stored = <<InitGoal>>
  /\ now = 0
  /\ route = "tree"
  /\ treeData = BuildTreeEffect(<<InitGoal>>, FALSE, <<>>)
  /\ showCompletedNodes = FALSE
  /\ newChildForm = ClosedNewChildForm
  /\ aiSubtasksForm = ClosedAiForm
  /\ deleteConfirm = ClosedDeleteConfirm
  /\ editNodeModal = ClosedEditModal
  /\ aiCalls = <<>>
  /\ fx = Fx("mount")
  /\ LayoutIdle

Init == Mounted /\ AuxIdle

-----------------------------------------------------------------------------
(* Handlers.                                                               *)

\* time passes
Tick ==
  /\ now < MaxTime
  /\ now' = now + 1
  /\ UNCHANGED <<data, stored, uiVars, aiCalls, fx, layoutVars>>

\* setDataWithSave followed by the data-change effect of AppContext: the
\* state is replaced by a copy and saveData runs twice
SetData(goals) ==
  /\ data' = DeepCopy(goals)
  /\ stored' = DeepCopy(goals)

\* after a setData every call still waiting holds the data object of an
\* earlier render; stale counts the setData calls it has missed
Superseded(calls) ==
  [k \in DOMAIN calls |-> [calls[k] EXCEPT !.stale = calls[k].stale + 1]]

CanSetData(calls) == \A k \in DOMAIN calls : calls[k].stale < MaxStale

\* the checkbox "Show completed tasks"
toggleShowCompleted ==
  /\ route = "tree" /\ NoModal
  /\ showCompletedNodes' = ~showCompletedNodes
  /\ treeData' = BuildTreeEffect(data, ~showCompletedNodes, treeData)
  /\ fx' = ViewOnly
  /\ UNCHANGED <<data, stored, now, route, newChildForm, aiSubtasksForm,
                 deleteConfirm, editNodeModal, aiCalls, layoutVars>>

\* a click on a number indicator: toggleNodeCollapse(child.id, true)
toggleNodeCollapse(nodeId, isChildToggle) ==
  /\ route = "tree" /\ NoModal
  /\ treeData # <<>>
  /\ treeData' = <<updateNodeCollapse(treeData[1], nodeId, isChildToggle)>>
  /\ fx' = ViewOnly
  /\ UNCHANGED <<data, stored, now, route, showCompletedNodes, newChildForm,
                 aiSubtasksForm, deleteConfirm, editNodeModal, aiCalls, layoutVars>>

\* the "minimize all" button of a drawn node that has children
minimizeAllChildren(parentId) ==
  /\ route = "tree" /\ NoModal
  /\ treeData # <<>>
  /\ \E k \in DOMAIN RenderedNodes(treeData[1]) :
       LET node == RenderedNodes(treeData[1])[k]
           childrenToMinimize ==
             { node.children[i].id : i \in { j \in DOMAIN node.children :
                                              ~node.children[j].isMinimized } }
       IN /\ node.id = parentId
          /\ childrenToMinimize # {}
          /\ treeData' = <<updateChildrenVisibility(treeData[1], parentId,
                                                    childrenToMinimize)>>
  /\ fx' = [Fx("minimizeAllChildren") EXCEPT !.node = parentId]
  /\ UNCHANGED <<data, stored, now, route, showCompletedNodes, newChildForm,
                 aiSubtasksForm, deleteConfirm, editNodeModal, aiCalls, layoutVars>>

\* -- add child ---------------------------------------------------------------

openNewChildForm(parentId) ==
  /\ route = "tree" /\ NoModal
  /\ parentId \in RenderedIds
  /\ newChildForm' = [parentId |-> parentId, title |-> <<>>,
                      description |-> <<>>, isOpen |-> TRUE]
  /\ fx' = ViewOnly
  /\ UNCHANGED <<data, stored, now, route, treeData, showCompletedNodes,
                 aiSubtasksForm, deleteConfirm, editNodeModal, aiCalls, layoutVars>>

closeNewChildForm ==
  /\ route = "tree" /\ newChildForm.isOpen
  /\ newChildForm' = ClosedNewChildForm
  /\ fx' = ViewOnly
  /\ UNCHANGED <<data, stored, now, route, treeData, showCompletedNodes,
                 aiSubtasksForm, deleteConfirm, editNodeModal, aiCalls, layoutVars>>

\* typing into the title input
handleFormChange(title) ==
  /\ route = "tree" /\ newChildForm.isOpen
  /\ newChildForm' = [newChildForm EXCEPT !.title = title]
  /\ fx' = ViewOnly
  /\ UNCHANGED <<data, stored, now, route, treeData, showCompletedNodes,
                 aiSubtasksForm, deleteConfirm, editNodeModal, aiCalls, layoutVars>>

handleFormSubmit ==
  /\ route = "tree" /\ newChildForm.isOpen
  /\ IF Trim(newChildForm.title) = <<>>
       THEN /\ fx' = [Fx("handleFormSubmit")
                        EXCEPT !.alert = TRUE]
            /\ UNCHANGED <<data, stored, now, uiVars, aiCalls, layoutVars>>
       ELSE LET newId == ChildId(now)
                newChild == NewNode(newId, newChildForm.title,
                                    newChildForm.description)
                updatedGoals == addChildToParent(data, newChildForm.parentId,
                                                 newChild)
                fromHandler == IF Goal = <<>> THEN treeData
                               ELSE <<buildTree(Goal[1], 0)>>
            IN /\ Goal # <<>> => NodeCount(Goal[1]) < MaxNodes
               /\ CanSetData(aiCalls)
               /\ SetData(updatedGoals)
               /\ newChildForm' = ClosedNewChildForm
               /\ treeData' = BuildTreeEffect(DeepCopy(updatedGoals),
                                              showCompletedNodes, fromHandler)
               /\ aiCalls' = Superseded(aiCalls)
               /\ fx' = [Fx("handleFormSubmit")
                           EXCEPT !.saves = 2]
               /\ UNCHANGED <<now, route, showCompletedNodes, aiSubtasksForm,
                              deleteConfirm, editNodeModal, layoutVars>>

\* -- toggle done -------------------------------------------------------------

toggleDoneStatus(nodeId) ==
  /\ route = "tree" /\ NoModal
  /\ nodeId \in RenderedIds
  /\ LET nodeToToggle == findNode(treeData[1], nodeId) IN
     /\ nodeToToggle # <<>>
     /\ IF /\ nodeToToggle[1].done = 0
           /\ Len(nodeToToggle[1].children) > 0
           /\ ~areAllChildrenDone(nodeToToggle[1])
          THEN /\ fx' = [Fx("toggleDoneStatus") EXCEPT !.node = nodeId,
                                                        !.toast = "error"]
               /\ UNCHANGED <<data, stored, now, uiVars, aiCalls, layoutVars>>
          ELSE LET updatedGoals == updateNodeDoneStatus(data, nodeId)
                   complete == IF Goal = <<>> THEN treeData
                               ELSE <<filterTreeData(buildTree(Goal[1], 0),
                                                     showCompletedNodes)>>
               IN /\ CanSetData(aiCalls)
                  /\ SetData(updatedGoals)
                  /\ treeData' = BuildTreeEffect(DeepCopy(updatedGoals),
                                                 showCompletedNodes, complete)
                  /\ aiCalls' = Superseded(aiCalls)
                  /\ fx' = [Fx("toggleDoneStatus") EXCEPT !.node = nodeId,
                                                           !.saves = 2]
                  /\ UNCHANGED <<now, route, showCompletedNodes, newChildForm,
                                 aiSubtasksForm, deleteConfirm, editNodeModal,
                                 layoutVars>>

\* -- delete ------------------------------------------------------------------

openDeleteConfirm(nodeId) ==
  /\ route = "tree" /\ NoModal
  /\ nodeId \in RenderedIds
  /\ deleteConfirm' = [isOpen |-> TRUE, nodeId |-> nodeId]
  /\ fx' = ViewOnly
  /\ UNCHANGED <<data, stored, now, route, treeData, showCompletedNodes,
                 newChildForm, aiSubtasksForm, editNodeModal, aiCalls, layoutVars>>

closeDeleteConfirm ==
  /\ route = "tree" /\ deleteConfirm.isOpen
  /\ deleteConfirm' = ClosedDeleteConfirm
  /\ fx' = ViewOnly
  /\ UNCHANGED <<data, stored, now, route, treeData, showCompletedNodes,
                 newChildForm, aiSubtasksForm, editNodeModal, aiCalls, layoutVars>>

\* the goals handleDeleteNode passes to setData
DeletedGoals(goals, nodeId) ==
  [i \in DOMAIN goals |->
     LET g == goals[i] IN
     IF g.id = GoalId
       THEN IF g.id = nodeId THEN g
            ELSE IF Len(g.childs) > 0
              THEN [g EXCEPT !.childs = deleteNodeFromTree(g.childs, nodeId)]
              ELSE g
       ELSE g]

\* deleteNodeFromTree assigns item.childs of the items it keeps: the objects
\* of the current data, which a waiting AI call of the same render still
\* holds, lose the node below their first level
MutatedInPlace(goals, nodeId) ==
  [i \in DOMAIN goals |->
     LET g == goals[i] IN
     IF g.id = GoalId /\ g.id # nodeId /\ Len(g.childs) > 0
       THEN [g EXCEPT !.childs =
               [j \in DOMAIN g.childs |->
                  IF g.childs[j].id # nodeId /\ Len(g.childs[j].childs) > 0
                    THEN [g.childs[j] EXCEPT !.childs =
                            deleteNodeFromTree(g.childs[j].childs, nodeId)]
                    ELSE g.childs[j]]]
       ELSE g]

\* the state of a GoalTreeView that is not mounted
Unmount ==
  /\ route' = "home"
  /\ treeData' = <<>>
  /\ showCompletedNodes' = FALSE
  /\ newChildForm' = ClosedNewChildForm
  /\ aiSubtasksForm' = ClosedAiForm
  /\ deleteConfirm' = ClosedDeleteConfirm
  /\ editNodeModal' = ClosedEditModal

handleDeleteNode ==
  /\ route = "tree" /\ deleteConfirm.isOpen
  /\ LET nodeId == deleteConfirm.nodeId
         newGoals == DeletedGoals(data, nodeId)
         rootDeleted == \E i \in DOMAIN data :
                           data[i].id = GoalId /\ data[i].id = nodeId
         updatedGoal == FindGoal(newGoals, GoalId)
         fromHandler == IF updatedGoal = <<>> THEN treeData
                        ELSE <<buildTree(updatedGoal[1], 0)>>
     IN /\ CanSetData(aiCalls)
        /\ SetData(newGoals)
        /\ aiCalls' =
             [k \in DOMAIN aiCalls |->
                [aiCalls[k] EXCEPT
                   !.data = IF aiCalls[k].stale = 0
                              THEN MutatedInPlace(aiCalls[k].data, nodeId)
                              ELSE aiCalls[k].data,
                   !.stale = aiCalls[k].stale + 1,
                   !.live = aiCalls[k].live /\ ~rootDeleted]]
        /\ IF rootDeleted
             THEN /\ Unmount
                  /\ fx' = [Fx("handleDeleteNode")
                              EXCEPT !.saves = 2, !.navigate = TRUE]
             ELSE /\ deleteConfirm' = ClosedDeleteConfirm
                  /\ treeData' = BuildTreeEffect(DeepCopy(newGoals),
                                                 showCompletedNodes, fromHandler)
                  /\ fx' = [Fx("handleDeleteNode") EXCEPT !.saves = 2]
                  /\ UNCHANGED <<route, showCompletedNodes, newChildForm,
                                 aiSubtasksForm, editNodeModal>>
        /\ UNCHANGED <<now, layoutVars>>

\* -- edit --------------------------------------------------------------------

openEditNodeModal(nodeId) ==
  /\ route = "tree" /\ NoModal
  /\ \E k \in DOMAIN RenderedNodes(treeData[1]) :
       LET node == RenderedNodes(treeData[1])[k] IN
       /\ node.id = nodeId
       /\ editNodeModal' = [isOpen |-> TRUE, nodeId |-> nodeId,
                            title |-> node.title, description |-> node.description,
                            editedTitle |-> node.title, error |-> FALSE]
  /\ fx' = ViewOnly
  /\ UNCHANGED <<data, stored, now, route, treeData, showCompletedNodes,
                 newChildForm, aiSubtasksForm, deleteConfirm, aiCalls, layoutVars>>

closeEditNodeModal ==
  /\ route = "tree" /\ editNodeModal.isOpen
  /\ editNodeModal' = ClosedEditModal
  /\ fx' = ViewOnly
  /\ UNCHANGED <<data, stored, now, route, treeData, showCompletedNodes,
                 newChildForm, aiSubtasksForm, deleteConfirm, aiCalls, layoutVars>>

\* typing into the title input of the EditNodeModal
setEditedTitle(title) ==
  /\ route = "tree" /\ editNodeModal.isOpen
  /\ editNodeModal' = [editNodeModal EXCEPT !.editedTitle = title]
  /\ fx' = ViewOnly
  /\ UNCHANGED <<data, stored, now, route, treeData, showCompletedNodes,
                 newChildForm, aiSubtasksForm, deleteConfirm, aiCalls, layoutVars>>

\* EditNodeModal.handleSubmit, and handleSaveEditedNode when the title passes
handleSaveEditedNode ==
  /\ route = "tree" /\ editNodeModal.isOpen
  /\ IF Trim(editNodeModal.editedTitle) = <<>>
       THEN /\ editNodeModal' = [editNodeModal EXCEPT !.error = TRUE]
            /\ fx' = Fx("handleSaveEditedNode")
            /\ UNCHANGED <<data, stored, now, route, treeData, showCompletedNodes,
                           newChildForm, aiSubtasksForm, deleteConfirm, aiCalls,
                           layoutVars>>
       ELSE LET nodeId == editNodeModal.nodeId
                updatedGoals == updateNodeContent(data, nodeId,
                                  editNodeModal.editedTitle,
                                  editNodeModal.description)
                fromHandler == IF Goal = <<>> THEN treeData
                               ELSE <<buildTree(Goal[1], 0)>>
            IN /\ CanSetData(aiCalls)
               /\ SetData(updatedGoals)
               /\ treeData' = BuildTreeEffect(DeepCopy(updatedGoals),
                                              showCompletedNodes, fromHandler)
               /\ editNodeModal' = ClosedEditModal
               /\ aiCalls' = Superseded(aiCalls)
               /\ fx' = [Fx("handleSaveEditedNode")
                           EXCEPT !.saves = 2,
                                  !.toast = IF Goal = <<>> THEN "none" ELSE "success"]
               /\ UNCHANGED <<now, route, showCompletedNodes, newChildForm,
                              aiSubtasksForm, deleteConfirm, layoutVars>>

\* -- AI subtasks -------------------------------------------------------------

openAiSubtasksForm(parentId) ==
  /\ route = "tree" /\ NoModal
  /\ \E k \in DOMAIN RenderedNodes(treeData[1]) :
       LET node == RenderedNodes(treeData[1])[k] IN
       /\ node.id = parentId
       /\ aiSubtasksForm' = [parentId |-> parentId,
                             parentDescription |-> node.description,
                             count |-> defaultAiCount, isOpen |-> TRUE,
                             isLoading |-> FALSE]
  /\ fx' = ViewOnly
  /\ UNCHANGED <<data, stored, now, route, treeData, showCompletedNodes,
                 newChildForm, deleteConfirm, editNodeModal, aiCalls, layoutVars>>

\* the overlay closes the form also while a call is in flight
closeAiSubtasksForm ==
  /\ route = "tree" /\ aiSubtasksForm.isOpen
  /\ aiSubtasksForm' = ClosedAiForm
  /\ fx' = ViewOnly
  /\ UNCHANGED <<data, stored, now, route, treeData, showCompletedNodes,
                 newChildForm, deleteConfirm, editNodeModal, aiCalls, layoutVars>>

handleAiFormChange(count) ==
  /\ route = "tree" /\ aiSubtasksForm.isOpen
  /\ count > 0
  /\ aiSubtasksForm' = [aiSubtasksForm EXCEPT !.count = count]
  /\ fx' = ViewOnly
  /\ UNCHANGED <<data, stored, now, route, treeData, showCompletedNodes,
                 newChildForm, deleteConfirm, editNodeModal, aiCalls, layoutVars>>

\* handleAiFormSubmit up to its await: the rest of the handler keeps the
\* data, the goal and the form of this render
handleAiFormSubmit ==
  /\ route = "tree" /\ aiSubtasksForm.isOpen /\ ~aiSubtasksForm.isLoading
  /\ Len(aiCalls) < MaxCalls
  /\ aiSubtasksForm' = [aiSubtasksForm EXCEPT !.isLoading = TRUE]
  /\ aiCalls' = Append(aiCalls,
                       [parentId |-> aiSubtasksForm.parentId,
                        parentDescription |-> aiSubtasksForm.parentDescription,
                        count |-> aiSubtasksForm.count,
                        data |-> data, stale |-> 0, live |-> TRUE])
  /\ fx' = Fx("handleAiFormSubmit")
  /\ UNCHANGED <<data, stored, now, route, treeData, showCompletedNodes,
                 newChildForm, deleteConfirm, editNodeModal, layoutVars>>

RemoveAt(s, k) == SubSeq(s, 1, k - 1) \o SubSeq(s, k + 1, Len(s))

\* generateSubtasks settles and handleAiFormSubmit runs on from its await
aiResponse(k, response) ==
  /\ k \in DOMAIN aiCalls
  /\ LET call == aiCalls[k]
         subtasks == generateSubtasks(call.parentDescription, call.count,
                                      response, now)
         updatedGoals == addSubtasksToParent(call.data, call.parentId, subtasks)
         goal == FindGoal(call.data, GoalId)
         fromHandler == IF goal = <<>> THEN treeData
                        ELSE <<buildTree(goal[1], 0)>>
     IN /\ CanSetData(RemoveAt(aiCalls, k))
        /\ SetData(updatedGoals)
        /\ aiCalls' = Superseded(RemoveAt(aiCalls, k))
        /\ IF route = "tree"
             THEN /\ treeData' =
                       BuildTreeEffect(DeepCopy(updatedGoals), showCompletedNodes,
                                       IF call.live THEN fromHandler ELSE treeData)
                  /\ aiSubtasksForm' =
                       IF call.live THEN ClosedAiForm
                       ELSE aiSubtasksForm
             ELSE UNCHANGED <<treeData, aiSubtasksForm>>
        /\ fx' = [Fx("aiResponse") EXCEPT !.saves = 2]
        /\ UNCHANGED <<now, route, showCompletedNodes, newChildForm,
                       deleteConfirm, editNodeModal, layoutVars>>

\* -- navigation -------------------------------------------------------------

\* the back button: navigate('/')
goHome ==
  /\ route = "tree" /\ NoModal
  /\ Unmount
  /\ aiCalls' = [k \in DOMAIN aiCalls |-> [aiCalls[k] EXCEPT !.live = FALSE]]
  /\ fx' = [Fx("goHome") EXCEPT !.navigate = TRUE]
  /\ UNCHANGED <<data, stored, now, layoutVars>>

\* a click on the goal's card: /goal/:id mounts with its initial state
openGoal ==
  /\ route = "home"
  /\ route' = "tree"
  /\ treeData' = BuildTreeEffect(data, FALSE, <<>>)
  /\ fx' = Fx("mount")
  /\ UNCHANGED <<data, stored, now, showCompletedNodes, newChildForm,
                 aiSubtasksForm, deleteConfirm, editNodeModal, aiCalls, layoutVars>>

\* the subtasks of the call fit into a tree of MaxNodes nodes
AiFits ==
  Goal # <<>> => NodeCount(Goal[1]) + aiSubtasksForm.count <= MaxNodes

\* the tree has at most MaxNodes nodes before the call, and the call adds
\* at most MaxCount to the tree it was made for
AiFitsAbove ==
  /\ aiSubtasksForm.count <= MaxCount
  /\ Goal # <<>> => NodeCount(Goal[1]) <= MaxNodes

Next ==
  \/ (Tick /\ UNCHANGED auxVars)
  \/ (toggleShowCompleted /\ UNCHANGED auxVars)
  \/ \E nodeId \in (IF treeData = <<>> THEN {} ELSE LineControlIds(treeData[1])) :
       toggleNodeCollapse(nodeId, TRUE) /\ UNCHANGED auxVars
  \/ \E parentId \in RenderedIds : minimizeAllChildren(parentId) /\ UNCHANGED auxVars
  \/ \E parentId \in RenderedIds : openNewChildForm(parentId) /\ UNCHANGED auxVars
  \/ (closeNewChildForm /\ UNCHANGED auxVars)
  \/ \E title \in FormTitles : handleFormChange(title) /\ UNCHANGED auxVars
  \/ (handleFormSubmit /\ UNCHANGED auxVars)
  \/ \E nodeId \in RenderedIds : toggleDoneStatus(nodeId) /\ UNCHANGED auxVars
  \/ \E nodeId \in RenderedIds : openDeleteConfirm(nodeId) /\ UNCHANGED auxVars
  \/ (closeDeleteConfirm /\ UNCHANGED auxVars)
  \/ (handleDeleteNode /\ UNCHANGED auxVars)
  \/ \E nodeId \in RenderedIds : openEditNodeModal(nodeId) /\ UNCHANGED auxVars
  \/ (closeEditNodeModal /\ UNCHANGED auxVars)
  \/ \E title \in EditTitles : setEditedTitle(title) /\ UNCHANGED auxVars
  \/ (handleSaveEditedNode /\ UNCHANGED auxVars)
  \/ \E parentId \in RenderedIds : openAiSubtasksForm(parentId) /\ UNCHANGED auxVars
  \/ (closeAiSubtasksForm /\ UNCHANGED auxVars)
  \/ \E count \in 1..MaxCount : handleAiFormChange(count) /\ UNCHANGED auxVars
  \/ (AiFits /\ handleAiFormSubmit /\ UNCHANGED auxVars)
  \/ \E k \in 1..MaxCalls, response \in MainAiResponses : aiResponse(k, response) /\ UNCHANGED auxVars
  \/ (goHome /\ UNCHANGED auxVars)
  \/ (openGoal /\ UNCHANGED auxVars)

Spec == Init /\ [][Next]_vars

\* The handlers that add and delete nodes, with an AI call that may answer
\* after the dialog is closed and the tree has changed.
NextTree ==
  \/ (Tick /\ UNCHANGED auxVars)
  \/ \E parentId \in RenderedIds : openNewChildForm(parentId) /\ UNCHANGED auxVars
  \/ \E title \in FormTitles : handleFormChange(title) /\ UNCHANGED auxVars
  \/ (handleFormSubmit /\ UNCHANGED auxVars)
  \/ \E nodeId \in RenderedIds : openDeleteConfirm(nodeId) /\ UNCHANGED auxVars
  \/ (handleDeleteNode /\ UNCHANGED auxVars)
  \/ \E parentId \in RenderedIds : openAiSubtasksForm(parentId) /\ UNCHANGED auxVars
  \/ (closeAiSubtasksForm /\ UNCHANGED auxVars)
  \/ \E count \in 1..MaxCount : handleAiFormChange(count) /\ UNCHANGED auxVars
  \/ (AiFitsAbove /\ handleAiFormSubmit /\ UNCHANGED auxVars)
  \/ \E k \in 1..MaxCalls, response \in MainAiResponses : aiResponse(k, response) /\ UNCHANGED auxVars

SpecTree == Init /\ [][NextTree]_vars

-----------------------------------------------------------------------------
(* generateSubtasks on its own: one call with every outcome of callOpenAI. *)

Descriptions == { <<>>, TheDescription }

\* the caller has passed (description, count) and awaits the promise
InitAi ==
  /\ Mounted /\ ViewIdle /\ SaveIdle
  /\ \E description \in Descriptions, count \in 1..MaxAsked :
       returned = [description |-> description, count |-> count,
                   settled |-> "pending", response |-> <<>>, tasks |-> <<>>]

\* callOpenAI settles and generateSubtasks runs to its return
generateSubtasksSettles(response) ==
  /\ returned.settled = "pending"
  /\ returned' = [returned EXCEPT
                    !.settled = "resolved",
                    !.response = <<response>>,
                    !.tasks = generateSubtasks(returned.description,
                                               returned.count, response, now)]
  /\ UNCHANGED <<mainVars, layoutVars, viewVars, saveVars>>

NextAi ==
  \/ (Tick /\ UNCHANGED auxVars)
  \/ \E response \in AiResponses : generateSubtasksSettles(response)

SpecAi == InitAi /\ [][NextAi]_vars

-----------------------------------------------------------------------------
(* The layout: calculateTreeDimensions (measure) and collectPositions,     *)
(* which places the nodes as renderNode does.  Widths are integers; the    *)
(* x coordinates are scaled by availableWidth / effectiveTotalWidth and    *)
(* are kept as exact fractions [n, d].                                     *)

RECURSIVE GCD(_, _)
GCD(a, b) == IF b = 0 THEN a ELSE GCD(b, a % b)

Abs(a) == IF a < 0 THEN 0 - a ELSE a

Frac(n, d) ==
  LET g == GCD(Abs(n), Abs(d))
      sign == IF d < 0 THEN 0 - 1 ELSE 1
  IN [n |-> sign * (n \div g), d |-> sign * (d \div g)]

FInt(k) == [n |-> k, d |-> 1]
\* common factors are taken out before the products are formed
FAdd(a, b) ==
  LET g == GCD(a.d, b.d)
  IN Frac(a.n * (b.d \div g) + b.n * (a.d \div g), (a.d \div g) * b.d)
FSub(a, b) == FAdd(a, [n |-> 0 - b.n, d |-> b.d])
FMul(a, b) ==
  LET g1 == GCD(Abs(a.n), b.d)
      g2 == GCD(Abs(b.n), a.d)
  IN Frac((a.n \div g1) * (b.n \div g2), (a.d \div g2) * (b.d \div g1))
FDiv(a, b) == FMul(a, Frac(b.d, b.n))
FLess(a, b) ==
  LET g == GCD(a.d, b.d)
  IN a.n * (b.d \div g) < b.n * (a.d \div g)

RECURSIVE MaxSeq(_)
MaxSeq(s) == IF s = <<>> THEN 0 ELSE Max(Head(s), MaxSeq(Tail(s)))

\* a count that leaves out the node itself
countOfChildrenOnly(totalCount) == totalCount

\* count: totalCount + 1, the children's counts and the node itself
countWithSelf(totalCount) == totalCount + 1

RECURSIVE calculateTreeDimensions(_)
calculateTreeDimensions(node) ==
  IF node.isCollapsed \/ Len(node.children) = 0
    THEN [width |-> nodeSpacing, height |-> levelSpacing, count |-> 1]
    ELSE LET normalChildren == SelectSeq(node.children, LAMBDA c : ~c.isMinimized)
             minimizedChildren == SelectSeq(node.children, LAMBDA c : c.isMinimized)
             dims == [i \in DOMAIN normalChildren |->
                        calculateTreeDimensions(normalChildren[i])]
             summed == SumSeq([i \in DOMAIN dims |-> dims[i].width])
             maxHeight == MaxSeq([i \in DOMAIN dims |-> dims[i].height])
             totalCount == SumSeq([i \in DOMAIN dims |-> dims[i].count])
             withMinimized ==
               IF Len(minimizedChildren) > 0
                 THEN Max(summed, Len(minimizedChildren) * minimizedSlot)
                 ELSE summed
             minWidth == Max(Len(normalChildren) * nodeSpacing, minSubtreeWidth)
         IN [width |-> Max(withMinimized, minWidth),
             height |-> maxHeight + levelSpacing,
             count |-> countWithSelf(totalCount)]

\* currentX before the i-th normal child: the left edge plus the widths
\* handed to the children before it
RECURSIVE CurrentX(_, _, _)
CurrentX(left, childWidths, i) ==
  IF i = 1 THEN left
  ELSE FAdd(CurrentX(left, childWidths, i - 1), childWidths[i - 1])

RECURSIVE collectPositions(_, _, _, _)
collectPositions(node, x, y, availableWidth) ==
  <<[id |-> node.id, x |-> x, y |-> y]>> \o
  (IF Len(node.children) = 0 \/ node.isCollapsed THEN <<>>
   ELSE LET childrenDimensions == [i \in DOMAIN node.children |->
                                     calculateTreeDimensions(node.children[i])]
            totalChildrenWidth ==
              SumSeq([i \in DOMAIN childrenDimensions |-> childrenDimensions[i].width])
            minTotalWidth == Len(node.children) * nodeSpacing
            effectiveTotalWidth == Max(totalChildrenWidth, minTotalWidth)
            scaleFactor ==
              IF FLess(FInt(effectiveTotalWidth), availableWidth)
                THEN FDiv(availableWidth, FInt(effectiveTotalWidth))
                ELSE FInt(1)
            normalChildren == SelectSeq(node.children, LAMBDA c : ~c.isMinimized)
            \* childrenDimensions[i] with i the index among the normal children
            childWidths == [i \in DOMAIN normalChildren |->
                              FMul(FInt(childrenDimensions[i].width), scaleFactor)]
            left == FSub(x, FDiv(availableWidth, FInt(2)))
        IN Concat([i \in DOMAIN normalChildren |->
                     collectPositions(
                       normalChildren[i],
                       FAdd(CurrentX(left, childWidths, i),
                            FDiv(childWidths[i], FInt(2))),
                       y + levelSpacing,
                       childWidths[i])]))

\* -- the view trees laid out -------------------------------------------------

ViewId(path) == <<"v">> \o path

ViewLeaf(path, minimized) ==
  [id |-> ViewId(path), title |-> <<"a">>, description |-> <<>>,
   children |-> <<>>, level |-> Len(path), isCollapsed |-> FALSE,
   isMinimized |-> minimized, done |-> 0]

GrandKidCounts == {0, 1, 2}

\* a child of the root: how many children it has, its own flags, and which
\* of its children are minimized
KidConfigs ==
  UNION { [count : {g}, collapsed : BOOLEAN, minimized : BOOLEAN,
           minimizedKids : SUBSET (1..g)] : g \in GrandKidCounts }

ViewKid(i, cfg) ==
  [id |-> ViewId(<<i>>), title |-> <<"a">>, description |-> <<>>,
   children |-> [j \in 1..cfg.count |-> ViewLeaf(<<i, j>>, j \in cfg.minimizedKids)],
   level |-> 1, isCollapsed |-> cfg.collapsed, isMinimized |-> cfg.minimized,
   done |-> 0]

ViewRoot(cfgs) ==
  [id |-> ViewId(<<>>), title |-> <<"g">>, description |-> <<>>,
   children |-> [i \in DOMAIN cfgs |-> ViewKid(i, cfgs[i])],
   level |-> 0, isCollapsed |-> FALSE, isMinimized |-> FALSE, done |-> 0]


InitLayout ==
  /\ data = <<InitGoal>>
  /\ stored = <<InitGoal>>
  /\ now = 0
  /\ route = "home"
  /\ treeData = <<>>
  /\ showCompletedNodes = FALSE
  /\ newChildForm = ClosedNewChildForm
  /\ aiSubtasksForm = ClosedAiForm
  /\ deleteConfirm = ClosedDeleteConfirm
  /\ editNodeModal = ClosedEditModal
  /\ aiCalls = <<>>
  /\ fx = Fx("mount")
  /\ lpc = "input"
  /\ \E k \in 0..MaxKids : \E cfgs \in [1..k -> KidConfigs] :
       ltree = <<ViewRoot(cfgs)>>
  /\ ldims = <<>>
  /\ lpos = <<>>
  /\ AuxIdle

\* measure
Measure ==
  /\ lpc = "input"
  /\ ldims' = <<calculateTreeDimensions(ltree[1])>>
  /\ lpc' = "measured"
  /\ UNCHANGED <<mainVars, ltree, lpos>>

\* place: the positions effect, collectPositions(treeData, 0, 100, width)
Place ==
  /\ lpc = "measured"
  /\ lpos' = collectPositions(ltree[1], FInt(rootX), rootY, FInt(ldims[1].width))
  /\ lpc' = "placed"
  /\ UNCHANGED <<mainVars, ltree, ldims>>

NextLayout ==
  \/ (Measure /\ UNCHANGED auxVars)
  \/ (Place /\ UNCHANGED auxVars)

SpecLayout == InitLayout /\ [][NextLayout]_vars

-----------------------------------------------------------------------------
(* The viewport: wheel zoom with its guard, the zoom buttons, reset, fit   *)
(* to screen and focus on a node. Scale and offset are exact rationals;    *)
(* the clamps and comparisons of the code come out the same in doubles.    *)

zoomFactor == Frac(1, 20)
minScale == Frac(1, 10)
maxScale == FInt(2)
significantChange == Frac(1, 100)
fitMinScale == Frac(2, 5)
fitMaxScale == Frac(9, 10)
focusScale == Frac(17, 20)
halfBoxWidth == 150
halfBoxHeight == 100
minPaddingX == 300
minPaddingY == 200

FMin(a, b) == IF FLess(b, a) THEN b ELSE a
FMax(a, b) == IF FLess(a, b) THEN b ELSE a
FAbs(a) == [n |-> Abs(a.n), d |-> a.d]
IMin(a, b) == IF b < a THEN b ELSE a

\* the goals the view is mounted on: the stored goal alone, and with two
\* children added at different times
SampleChild(t, kids) == [NewNode(ChildId(t), <<"a">>, <<>>) EXCEPT !.childs = kids]
WideGoal ==
  [InitGoal EXCEPT !.childs = [i \in 1..2 |-> SampleChild(i, <<>>)]]

\* getBoundingClientRect() of the container; its corner is the origin
Containers ==
  { [width |-> 1200, height |-> 800], [width |-> 810, height |-> 540],
    [width |-> 720, height |-> 540], [width |-> 300, height |-> 500] }

\* the wide goal is looked at in the first container only
WheelMounts ==
  { <<InitGoal, rect>> : rect \in Containers }
    \cup { <<WideGoal, [width |-> 1200, height |-> 800]>> }

\* the largest and the smallest container
ViewMounts ==
  { <<InitGoal, [width |-> 1200, height |-> 800]>>,
    <<InitGoal, [width |-> 300, height |-> 500]>> }

\* clientX - rect.left, clientY - rect.top of the wheel events
MousePoints == { [x |-> 100, y |-> 50] }
DeltaYs == { 0 - 100, 0, 100 }
ElapseSteps == { 10, 140 }

\* the positions effect: collectPositions(treeData, 0, 100, rootTreeWidth)
PositionsEffect(tree) ==
  IF tree = <<>> THEN nodePositions
  ELSE collectPositions(tree[1], FInt(rootX), rootY,
                        FInt(calculateTreeDimensions(tree[1]).width))

\* Map.get: the value set last under the key
PositionOf(positions, id) ==
  LET hits == SelectSeq(positions, LAMBDA e : e.id = id) IN
  IF hits = <<>> THEN <<>> ELSE <<hits[Len(hits)]>>

\* the build effect centers the view: {x: width / 2 - 150, y: height / 4}
CenteredPosition(rect) ==
  [x |-> FSub(Frac(rect.width, 2), FInt(halfBoxWidth)), y |-> Frac(rect.height, 4)]

MountedOn(goal, rect) ==
  /\ data = <<goal>> /\ stored = <<goal>>
  /\ now = 0 /\ route = "tree"
  /\ treeData = BuildTreeEffect(<<goal>>, FALSE, <<>>)
  /\ showCompletedNodes = FALSE
  /\ newChildForm = ClosedNewChildForm
  /\ aiSubtasksForm = ClosedAiForm
  /\ deleteConfirm = ClosedDeleteConfirm
  /\ editNodeModal = ClosedEditModal
  /\ aiCalls = <<>>
  /\ fx = Fx("mount")
  /\ LayoutIdle
  /\ container = rect
  /\ scale = FInt(1)
  /\ position = CenteredPosition(rect)
  /\ isZooming = FALSE
  /\ focusedNodeId = NoId
  /\ lastKey = <<>>
  /\ nodePositions = PositionsEffect(BuildTreeEffect(<<goal>>, FALSE, <<>>))
  /\ timers = <<>>

\* sinceAccepted: ms since the last wheel event that passed the guard;
\* changed: that event moved the scale; dropped: the last wheel event was
\* turned away by the guard; presses: zoom buttons pressed so far
NoWheelYet ==
  [sinceAccepted |-> MaxAge, changed |-> FALSE, dropped |-> FALSE, presses |-> 0]

InitWheel ==
  /\ \E mount \in WheelMounts : MountedOn(mount[1], mount[2])
  /\ wheelLog = NoWheelYet
  /\ SaveIdle
  /\ returned = <<>>

InitView ==
  /\ \E mount \in ViewMounts : MountedOn(mount[1], mount[2])
  /\ wheelLog = NoWheelYet
  /\ SaveIdle
  /\ returned = <<>>

viewFrame == <<mainVars, layoutVars, saveVars, returned, container, nodePositions,
              lastKey>>

\* time passes: the timers come closer, the last accepted wheel event ages
Elapse(ms) ==
  /\ timers' = [k \in DOMAIN timers |->
                  [timers[k] EXCEPT !.left = Max(0, timers[k].left - ms)]]
  /\ wheelLog' = [wheelLog EXCEPT
                    !.sinceAccepted = IMin(MaxAge, wheelLog.sinceAccepted + ms)]
  /\ \/ timers' # timers
     \/ wheelLog' # wheelLog
  /\ UNCHANGED <<scale, position, isZooming, focusedNodeId, viewFrame>>

zoomToward(mouse, newScale) ==
  [x |-> FSub(FInt(mouse.x),
              FDiv(FMul(FSub(FInt(mouse.x), position.x), newScale), scale)),
   y |-> FSub(FInt(mouse.y),
              FDiv(FMul(FSub(FInt(mouse.y), position.y), newScale), scale))]

handleWheel(deltaY, mouse) ==
  IF isZooming
    THEN /\ wheelLog' = [wheelLog EXCEPT !.dropped = TRUE]
         /\ UNCHANGED <<scale, position, isZooming, timers, focusedNodeId, viewFrame>>
    ELSE LET delta == 0 - deltaY
             newScale == IF delta < 0
                           THEN FMax(minScale, FSub(scale, zoomFactor))
                           ELSE FMin(maxScale, FAdd(scale, zoomFactor))
             significant == ~FLess(FAbs(FSub(newScale, scale)), significantChange)
         IN /\ isZooming' = TRUE
            /\ scale' = IF significant THEN newScale ELSE scale
            /\ position' = IF significant THEN zoomToward(mouse, newScale)
                           ELSE position
            /\ timers' = Append(timers, [op |-> "zoomEnd", node |-> NoId,
                                          left |-> debounceMs])
            /\ wheelLog' = [wheelLog EXCEPT !.sinceAccepted = 0,
                                            !.changed = significant,
                                            !.dropped = FALSE]
            /\ UNCHANGED <<focusedNodeId, viewFrame>>

\* the callback run before its delay is over
zoomEndsEarly(k) ==
  /\ k \in DOMAIN timers
  /\ timers[k].op = "zoomEnd"
  /\ isZooming' = FALSE
  /\ timers' = RemoveAt(timers, k)
  /\ UNCHANGED <<scale, position, wheelLog, focusedNodeId, viewFrame>>

\* the callback that leaves the guard as it is
zoomEndsKeepsGuard(k) ==
  /\ k \in DOMAIN timers
  /\ timers[k].op = "zoomEnd" /\ timers[k].left = 0
  /\ timers' = RemoveAt(timers, k)
  /\ UNCHANGED <<isZooming, scale, position, wheelLog, focusedNodeId, viewFrame>>

\* the callback of handleWheel's setTimeout
zoomEnds(k) ==
  /\ k \in DOMAIN timers
  /\ timers[k].op = "zoomEnd" /\ timers[k].left = 0
  /\ isZooming' = FALSE
  /\ timers' = RemoveAt(timers, k)
  /\ UNCHANGED <<scale, position, wheelLog, focusedNodeId, viewFrame>>

zoomInUnclamped(s) == FAdd(s, zoomFactor)
zoomInScale(s) == FMin(FAdd(s, zoomFactor), maxScale)
zoomOutScale(s) == FMax(FSub(s, zoomFactor), minScale)

zoomIn ==
  /\ scale' = zoomInScale(scale)
  /\ wheelLog' = [wheelLog EXCEPT !.presses = wheelLog.presses + 1]
  /\ UNCHANGED <<position, isZooming, timers, focusedNodeId, viewFrame>>

zoomOut ==
  /\ scale' = zoomOutScale(scale)
  /\ wheelLog' = [wheelLog EXCEPT !.presses = wheelLog.presses + 1]
  /\ UNCHANGED <<position, isZooming, timers, focusedNodeId, viewFrame>>

resetView ==
  /\ scale' = FInt(1)
  /\ position' = [x |-> FInt(0), y |-> FInt(0)]
  /\ UNCHANGED <<isZooming, wheelLog, timers, focusedNodeId, viewFrame>>

\* the nodes fitToScreen puts into the bounding box: the root, its children
\* and their children, below a node that is not collapsed and not minimized
fitBox(root) ==
  <<root>> \o
  (IF root.isCollapsed THEN <<>>
   ELSE Concat([i \in DOMAIN root.children |->
          LET child == root.children[i] IN
          IF child.isMinimized \/ PositionOf(nodePositions, child.id) = <<>>
            THEN <<>>
            ELSE <<child>> \o
                 (IF child.isCollapsed THEN <<>>
                  ELSE SelectSeq(child.children, LAMBDA g : ~g.isMinimized)) ]))

\* Math.min and Math.max folded over the box
FMinSeq(s) == CHOOSE a \in Range(s) : \A b \in Range(s) : ~FLess(b, a)
FMaxSeq(s) == CHOOSE a \in Range(s) : \A b \in Range(s) : ~FLess(a, b)

\* the clamp without its lower limit
fitClampOnlyAbove(newScale) == FMin(newScale, fitMaxScale)

fitClamp(newScale) == FMax(FMin(newScale, fitMaxScale), fitMinScale)

\* the bounding box of the nodes at the positions at, with the padding
fitBounds(at, rect) ==
  LET paddingX == FMax(Frac(rect.width * 15, 100), FInt(minPaddingX))
      paddingY == FMax(Frac(rect.height * 15, 100), FInt(minPaddingY))
  IN [minX |-> FSub(FSub(FMinSeq([k \in DOMAIN at |-> at[k].x]),
                         FInt(halfBoxWidth)), paddingX),
      maxX |-> FAdd(FAdd(FMaxSeq([k \in DOMAIN at |-> at[k].x]),
                         FInt(halfBoxWidth)), paddingX),
      minY |-> FSub(FSub(FMinSeq([k \in DOMAIN at |-> FInt(at[k].y)]),
                         FInt(halfBoxHeight)), paddingY),
      maxY |-> FAdd(FAdd(FMaxSeq([k \in DOMAIN at |-> FInt(at[k].y)]),
                         FInt(halfBoxHeight)), paddingY)]

fitScale(box, rect) ==
  LET scaleX == FDiv(FInt(rect.width), FSub(box.maxX, box.minX))
      scaleY == FDiv(FInt(rect.height), FSub(box.maxY, box.minY))
  IN fitClamp(FMin(scaleX, scaleY))

fitPosition(box, rect, newScale) ==
  [x |-> FSub(Frac(rect.width, 2),
              FMul(FDiv(FAdd(box.minX, box.maxX), FInt(2)), newScale)),
   y |-> FSub(Frac(rect.height, 2),
              FMul(FDiv(FAdd(box.minY, box.maxY), FInt(2)), newScale))]

fitToScreen ==
  /\ treeData # <<>> /\ nodePositions # <<>>
  /\ PositionOf(nodePositions, treeData[1].id) # <<>>
  /\ \E box \in { fitBounds([k \in DOMAIN fitBox(treeData[1]) |->
                               PositionOf(nodePositions, fitBox(treeData[1])[k].id)[1]],
                            container) } :
       \E newScale \in { fitScale(box, container) } :
         /\ position' = fitPosition(box, container, newScale)
         /\ scale' = newScale
  /\ UNCHANGED <<isZooming, wheelLog, timers, focusedNodeId, viewFrame>>

focusOnNode(nodeId) ==
  /\ treeData # <<>>
  /\ focusedNodeId' = nodeId
  /\ LET nodePos == PositionOf(nodePositions, nodeId) IN
     IF nodePos = <<>> \/ findNode(treeData[1], nodeId) = <<>>
       THEN UNCHANGED <<scale, position>>
       ELSE /\ scale' = focusScale
            /\ position' =
                 [x |-> FSub(Frac(container.width, 2), FMul(nodePos[1].x, focusScale)),
                  y |-> FSub(Frac(container.height, 3),
                             FMul(FInt(nodePos[1].y), focusScale))]
  /\ UNCHANGED <<isZooming, wheelLog, timers, viewFrame>>

\* every operation on the viewport, the time passing a guard interval at once
NextView ==
  \/ Elapse(debounceMs)
  \/ \E deltaY \in DeltaYs, mouse \in MousePoints : handleWheel(deltaY, mouse)
  \/ \E k \in DOMAIN timers : zoomEnds(k)
  \/ (wheelLog.presses < MaxPresses /\ zoomIn)
  \/ (wheelLog.presses < MaxPresses /\ zoomOut)
  \/ resetView
  \/ fitToScreen
  \/ \E nodeId \in RenderedIds : focusOnNode(nodeId)

SpecView == InitView /\ [][NextView]_vars

\* the wheel and its guard in steps of 10 ms, reset and fit to screen
NextWheel ==
  \/ \E ms \in ElapseSteps : Elapse(ms)
  \/ \E deltaY \in DeltaYs, mouse \in MousePoints : handleWheel(deltaY, mouse)
  \/ \E k \in DOMAIN timers : zoomEnds(k)
  \/ resetView
  \/ fitToScreen

SpecWheel == InitWheel /\ [][NextWheel]_vars

\* the same machine with the time that does not stop and the event loop
\* that runs every timer callback that is due
SpecWheelLive ==
  /\ InitWheel /\ [][NextWheel]_vars
  /\ WF_vars(\E ms \in ElapseSteps : Elapse(ms))
  /\ WF_vars(\E k \in DOMAIN timers : zoomEnds(k))

-----------------------------------------------------------------------------
(* Keyboard navigation: the keydown listener of the focused view.          *)

focusDelay == 50
siblingFocusDelay == 100

\* e.key of the keys pressed: the arrows, and " " for the space bar
Keys == { "ArrowDown", "ArrowUp", "ArrowRight", "ArrowLeft", " " }

\* a goal with a child that has a child, and another child; and a goal whose
\* two children were added in the same millisecond
NestedGoal ==
  [InitGoal EXCEPT !.childs =
     <<SampleChild(1, <<SampleChild(3, <<>>)>>), SampleChild(2, <<>>)>>]
TwinGoal ==
  [InitGoal EXCEPT !.childs = <<SampleChild(1, <<>>), SampleChild(1, <<>>)>>]
KeyGoals == { NestedGoal, TwinGoal }

InitKeys ==
  /\ \E goal \in KeyGoals : MountedOn(goal, [width |-> 1200, height |-> 800])
  /\ wheelLog = NoWheelYet
  /\ SaveIdle
  /\ returned = <<>>

RECURSIVE findParentIn(_, _, _)
RECURSIVE findParentNode(_, _)
findParentIn(node, k, childId) ==
  IF k > Len(node.children) THEN <<>>
  ELSE IF node.children[k].id = childId THEN <<node>>
  ELSE LET found == findParentNode(node.children[k], childId) IN
       IF found # <<>> THEN found ELSE findParentIn(node, k + 1, childId)
findParentNode(node, childId) == findParentIn(node, 1, childId)

\* Array.findIndex, counted from 1; 0 when nothing matches
RECURSIVE findIndexFrom(_, _, _)
findIndexFrom(children, k, id) ==
  IF k > Len(children) THEN 0
  ELSE IF children[k].id = id THEN k
  ELSE findIndexFrom(children, k + 1, id)
findIndex(children, id) == findIndexFrom(children, 1, id)

\* where the key takes the focus: <<id, delay>>, or <<>> when it moves nothing
keyTarget(key, tree, focused) ==
  LET currentNode == findNode(tree, focused)[1]
      parentNode == findParentNode(tree, focused)
      normal == SelectSeq(currentNode.children, LAMBDA child : ~child.isMinimized)
      siblings == parentNode[1].children
      currentIndex == findIndex(siblings, focused)
  IN CASE key = "ArrowDown" ->
            IF Len(currentNode.children) > 0 /\ ~currentNode.isCollapsed /\ normal # <<>>
              THEN <<normal[1].id, focusDelay>> ELSE <<>>
       [] key = "ArrowUp" ->
            IF parentNode # <<>> THEN <<parentNode[1].id, focusDelay>> ELSE <<>>
       [] key = "ArrowRight" ->
            IF parentNode # <<>> /\ currentIndex < Len(siblings)
              THEN <<siblings[currentIndex + 1].id, siblingFocusDelay>> ELSE <<>>
       [] key = "ArrowLeft" ->
            IF parentNode # <<>> /\ currentIndex > 1
              THEN <<siblings[currentIndex - 1].id, siblingFocusDelay>> ELSE <<>>
       [] OTHER -> <<>>

keyFrame == <<data, stored, now, route, showCompletedNodes, newChildForm,
             aiSubtasksForm, deleteConfirm, editNodeModal, aiCalls, fx,
             layoutVars, saveVars, returned, container, isZooming, wheelLog>>

\* the listener is registered while a node is focused; focusWithDelay sets
\* the focus at once and leaves the centering to a timer that keeps the
\* tree and the positions of this render
handleKeyDown(key) ==
  /\ focusedNodeId # NoId /\ treeData # <<>>
  /\ findNode(treeData[1], focusedNodeId) # <<>>
  /\ lastKey' = <<key>>
  /\ IF key = "Space"
       THEN /\ treeData' = <<updateNodeCollapse(treeData[1], focusedNodeId, FALSE)>>
            /\ nodePositions' = PositionsEffect(treeData')
            /\ UNCHANGED <<focusedNodeId, timers>>
       ELSE LET target == keyTarget(key, treeData[1], focusedNodeId) IN
            IF target = <<>>
              THEN UNCHANGED <<treeData, nodePositions, focusedNodeId, timers>>
              ELSE /\ focusedNodeId' = target[1]
                   /\ timers' = Append(timers,
                        [op |-> "focus", node |-> target[1], left |-> target[2],
                         tree |-> treeData, positions |-> nodePositions])
                   /\ UNCHANGED <<treeData, nodePositions>>
  /\ UNCHANGED <<scale, position, keyFrame>>

\* the positions the timer of focusWithDelay collects again: the root and,
\* below a node that is not collapsed, every child that had a position
RECURSIVE recollect(_, _, _)
recollect(node, at, positions) ==
  <<[id |-> node.id, x |-> at.x, y |-> at.y]>> \o
  (IF Len(node.children) = 0 \/ node.isCollapsed THEN <<>>
   ELSE Concat([i \in DOMAIN node.children |->
          LET existingPos == PositionOf(positions, node.children[i].id) IN
          IF existingPos = <<>> THEN <<>>
          ELSE recollect(node.children[i], existingPos[1], positions)]))

\* the callback of focusWithDelay: setNodePositions, then focusOnNode
focusLater(k) ==
  /\ k \in DOMAIN timers
  /\ timers[k].op = "focus" /\ timers[k].left = 0
  /\ LET t == timers[k]
         rootPos == PositionOf(t.positions, t.tree[1].id)
         nodePos == PositionOf(t.positions, t.node)
     IN /\ nodePositions' = IF rootPos = <<>> THEN nodePositions
                            ELSE recollect(t.tree[1], rootPos[1], t.positions)
        /\ focusedNodeId' = t.node
        /\ IF nodePos = <<>> \/ findNode(t.tree[1], t.node) = <<>>
             THEN UNCHANGED <<scale, position>>
             ELSE /\ scale' = focusScale
                  /\ position' =
                       [x |-> FSub(Frac(container.width, 2),
                                   FMul(nodePos[1].x, focusScale)),
                        y |-> FSub(Frac(container.height, 3),
                                   FMul(FInt(nodePos[1].y), focusScale))]
  /\ timers' = RemoveAt(timers, k)
  /\ UNCHANGED <<treeData, lastKey, keyFrame>>

\* a click on a number indicator, and the positions effect after it
toggleMinimized(nodeId) ==
  /\ toggleNodeCollapse(nodeId, TRUE)
  /\ nodePositions' = PositionsEffect(treeData')
  /\ UNCHANGED <<scale, position, isZooming, wheelLog, focusedNodeId, lastKey,
                 timers, container, saveVars, returned>>

NextKeys ==
  \/ Elapse(focusDelay)
  \/ \E nodeId \in RenderedIds : focusOnNode(nodeId)
  \/ \E nodeId \in (IF treeData = <<>> THEN {} ELSE LineControlIds(treeData[1])) :
       toggleMinimized(nodeId)
  \/ \E key \in Keys : (Len(timers) < MaxTimers /\ handleKeyDown(key))
  \/ \E k \in DOMAIN timers : focusLater(k)

SpecKeys == InitKeys /\ [][NextKeys]_vars

\* Key presses that follow one another faster than the delays of
\* focusWithDelay. The time moves on to the next timer that is due at the
\* most, a timer that is due runs before the time moves on, and of two
\* timers due together the one set first runs first.
FocusSteps == { 10, 40, 50 }

InitFocus ==
  /\ MountedOn(NestedGoal, [width |-> 1200, height |-> 800])
  /\ wheelLog = NoWheelYet
  /\ SaveIdle
  /\ returned = <<>>

NextFocus ==
  \/ \E ms \in FocusSteps :
       (\A k \in DOMAIN timers : timers[k].left >= ms) /\ Elapse(ms)
  \/ \E nodeId \in RenderedIds : (timers = <<>> /\ focusOnNode(nodeId))
  \/ \E key \in Keys : (Len(timers) < MaxPending /\ handleKeyDown(key))
  \/ \E k \in DOMAIN timers :
       (\A j \in 1..(k - 1) : timers[j].left > 0) /\ focusLater(k)

SpecFocus == InitFocus /\ [][NextFocus]_vars

-----------------------------------------------------------------------------
(* saveData: the write to localStorage and the time-boxed update of the    *)
(* gist.                                                                   *)

\* Date.now() when the page is loaded, counted from a time that lies further
\* back than five minutes
SaveStart == 1000000

\* the time between two calls: five minutes to the millisecond, one
\* millisecond less, one more
SaveGaps == { 299999, 300000, 300001 }

SavedGoals == { <<InitGoal>>, <<WideGoal>> }

\* LAST_GIST_UPDATE_KEY is absent (read as 0) or was set when the data was
\* loaded from the gist
InitSave ==
  /\ data = <<InitGoal>> /\ stored = <<InitGoal>>
  /\ now = SaveStart
  /\ route = "home" /\ treeData = <<>>
  /\ showCompletedNodes = FALSE
  /\ newChildForm = ClosedNewChildForm
  /\ aiSubtasksForm = ClosedAiForm
  /\ deleteConfirm = ClosedDeleteConfirm
  /\ editNodeModal = ClosedEditModal
  /\ aiCalls = <<>>
  /\ fx = Fx("mount")
  /\ LayoutIdle /\ ViewIdle
  /\ lastGistUpdate \in { 0, SaveStart }
  /\ gistCalls = <<>>
  /\ gist = <<InitGoal>>
  /\ returned = <<>>

saveFrame == <<uiVars, aiCalls, fx, layoutVars, viewVars>>

Wait(ms) ==
  /\ now + ms <= MaxSaveClock
  /\ now' = now + ms
  /\ UNCHANGED <<data, stored, saveVars, returned, saveFrame>>

\* the gate with the limit itself let through
gistIsDueAtLimit(forceGistUpdate, elapsed) ==
  forceGistUpdate \/ elapsed >= fiveMinutes

\* forceGistUpdate || (now - lastGistUpdate > fiveMinutes)
gistIsDue(forceGistUpdate, elapsed) ==
  forceGistUpdate \/ elapsed > fiveMinutes

\* saveData up to its await. stores: localStorage.setItem took the value
\* (it throws when the quota is exceeded, and the catch ends the call)
saveData(goals, forceGistUpdate, skipGistUpdate, stores) ==
  LET sends == /\ stores /\ ~skipGistUpdate
               /\ gistIsDue(forceGistUpdate, now - lastGistUpdate)
  IN /\ stored' = IF stores THEN goals ELSE stored
     /\ gistCalls' = IF sends THEN Append(gistCalls, [data |-> goals, at |-> now])
                     ELSE gistCalls
     /\ returned' = [op |-> "saveData", data |-> goals, force |-> forceGistUpdate,
                     skip |-> skipGistUpdate, stores |-> stores,
                     elapsed |-> now - lastGistUpdate, sent |-> sends]
     /\ UNCHANGED <<data, now, lastGistUpdate, gist, saveFrame>>

\* a saveData whose promise takes the outcome of updateGist
saveDataUncaught(ok) == IF ok THEN "resolved" ELSE "rejected"

\* how the promise of saveData settles: the catch around the whole body
\* logs what updateGist threw and ends the call
saveDataSettled(ok) == "resolved"

\* updateGist settles and saveData runs on from its await: the time read
\* before the call is recorded when the request succeeded
updateGistSettles(k, ok) ==
  /\ k \in DOMAIN gistCalls
  /\ gistCalls' = RemoveAt(gistCalls, k)
  /\ gist' = IF ok THEN gistCalls[k].data ELSE gist
  /\ lastGistUpdate' = IF ok THEN gistCalls[k].at ELSE lastGistUpdate
  /\ returned' = [op |-> "updateGist", data |-> gistCalls[k].data, ok |-> ok,
                  settled |-> saveDataSettled(ok)]
  /\ UNCHANGED <<data, stored, now, saveFrame>>

NextSave ==
  \/ \E ms \in SaveGaps : Wait(ms)
  \/ \E goals \in SavedGoals, forceGistUpdate \in BOOLEAN, skipGistUpdate \in BOOLEAN,
        stores \in BOOLEAN :
       (Len(gistCalls) < MaxFlushes
          /\ saveData(goals, forceGistUpdate, skipGistUpdate, stores))
  \/ \E k \in DOMAIN gistCalls, ok \in BOOLEAN : updateGistSettles(k, ok)

SpecSave == InitSave /\ [][NextSave]_vars

-----------------------------------------------------------------------------
(* The saves of a data change: setData of the context (setDataWithSave)    *)
(* calls saveData, and the data-change effect calls it again after the     *)
(* render; neither call is awaited.                                        *)

\* no caller passes skipGistUpdate
SkipFlags == { FALSE }

\* the updateGist call a saveData makes: none, or one
flushOf(goals, forceGistUpdate, skipGistUpdate, stores) ==
  IF stores /\ ~skipGistUpdate /\ gistIsDue(forceGistUpdate, now - lastGistUpdate)
    THEN <<[data |-> goals, at |-> now]>>
    ELSE <<>>

\* setDataWithSave and the effect on [data, loading, initialLoadComplete]:
\* both saves write the copy and both read LAST_GIST_UPDATE_KEY before
\* either request has come back
setDataWithSave(goals, skipGistUpdate, stores) ==
  LET dataCopy == DeepCopy(goals)
      first == flushOf(dataCopy, FALSE, skipGistUpdate, stores)
      second == flushOf(dataCopy, FALSE, FALSE, stores)
  IN /\ Len(gistCalls) + Len(first) + Len(second) <= MaxInFlight
     /\ data' = dataCopy
     /\ stored' = IF stores THEN dataCopy ELSE stored
     /\ gistCalls' = gistCalls \o first \o second
     /\ returned' = [op |-> "setData", data |-> dataCopy, stores |-> stores,
                     sent |-> Len(first) + Len(second)]
     /\ UNCHANGED <<now, lastGistUpdate, gist, saveFrame>>

NextFlush ==
  \/ \E ms \in SaveGaps : Wait(ms)
  \/ \E goals \in SavedGoals, skipGistUpdate \in SkipFlags, stores \in BOOLEAN :
       setDataWithSave(goals, skipGistUpdate, stores)
  \/ \E k \in DOMAIN gistCalls, ok \in BOOLEAN : updateGistSettles(k, ok)

SpecFlush == InitSave /\ [][NextFlush]_vars

-----------------------------------------------------------------------------
(* Properties of the handlers, checked under Spec.                          *)

UniqueIds(goals) ==
  LET ids == ForestIdList(goals) IN
  \A i, j \in DOMAIN ids : i # j => ids[i] # ids[j]

HasUndoneDescendant(node) ==
  \E p \in Paths(node) \ { <<>> } : NodeAt(node, p).done = 0

\* the data subtree with the node at path p, and all below it, taken out
RECURSIVE RemoveSubtree(_, _)
RemoveSubtree(node, p) ==
  IF Len(p) = 1
    THEN [node EXCEPT !.childs = RemoveAt(node.childs, p[1])]
    ELSE [node EXCEPT !.childs[p[1]] = RemoveSubtree(node.childs[p[1]], Tail(p))]

\* every view node strictly below node has done = 1
ViewDescendantsDone(node) ==
  \A i \in DOMAIN node.children :
    \A k \in DOMAIN ViewNodes(node.children[i]) :
      ViewNodes(node.children[i])[k].done = 1

IsBlank(s) == \A i \in DOMAIN s : s[i] \in Whitespace

\* C1: toggle-done on a node with done = 0 that has, at any depth in the
\* data tree, a descendant with done = 0 is refused and leaves the data
\* unchanged, with either setting of the show-completed filter.  (Ids are
\* taken unique here, so that the node is the one the id names.)
C1_ToggleRefusedOnUndoneDescendant ==
  [][\A n \in RenderedIds :
       (/\ toggleDoneStatus(n)
        /\ UniqueIds(data)
        /\ \E p \in Paths(Goal[1]) :
             /\ NodeAt(Goal[1], p).id = n
             /\ NodeAt(Goal[1], p).done = 0
             /\ HasUndoneDescendant(NodeAt(Goal[1], p)))
       => data' = data /\ stored' = stored]_vars

\* C2: after the delete of the root of the viewed tree, no goal with its id
\* is left in data.goals, and the view has navigated away.
C2_RootDeleteRemovesGoal ==
  [][(handleDeleteNode /\ deleteConfirm.nodeId = GoalId)
       => (FindGoal(data', GoalId) = <<>> /\ route' = "home")]_vars

\* C3: the delete of a node X below the root takes out X and what is below
\* X, and nothing else: the goal afterwards is the goal before without the
\* subtree of one node that has the id.
C3_DeleteRemovesExactlySubtree ==
  [][(/\ handleDeleteNode
      /\ deleteConfirm.nodeId # GoalId
      /\ deleteConfirm.nodeId \in Range(IdList(Goal[1])))
       => \E p \in Paths(Goal[1]) \ { <<>> } :
            /\ NodeAt(Goal[1], p).id = deleteConfirm.nodeId
            /\ FindGoal(data', GoalId) = <<RemoveSubtree(Goal[1], p)>>]_vars

\* C4: a view node that a data mutation does not remove has, once the view
\* tree is derived again, the isCollapsed and isMinimized it had before.
C4_FlagsSurviveMutation ==
  [][(/\ data' # data
      /\ route = "tree" /\ route' = "tree"
      /\ UniqueIds(data) /\ UniqueIds(data'))
       => \A i \in DOMAIN ViewNodes(treeData[1]) :
            \A j \in DOMAIN ViewNodes(treeData'[1]) :
              LET before == ViewNodes(treeData[1])[i]
                  after == ViewNodes(treeData'[1])[j]
              IN before.id = after.id =>
                   /\ after.isCollapsed = before.isCollapsed
                   /\ after.isMinimized = before.isMinimized]_vars

\* C5: when the response of a generateSubtasks call arrives with the AI
\* subtasks dialog closed, the data is not modified.
C5_ClosedDialogIgnoresResponse ==
  [][(/\ \E k \in DOMAIN aiCalls, response \in MainAiResponses :
           aiResponse(k, response)
      /\ ~aiSubtasksForm.isOpen)
       => data' = data]_vars

C7_IdsUnique == UniqueIds(data)

\* C10: a submit of the add-child form with an empty or whitespace-only
\* title leaves the data and the view tree unchanged, saves nothing and
\* reports the validation error.
C10_BlankTitleRefused ==
  [][(handleFormSubmit /\ IsBlank(newChildForm.title))
       => /\ data' = data
          /\ stored' = stored
          /\ treeData' = treeData
          /\ newChildForm' = newChildForm
          /\ fx'.saves = 0
          /\ fx'.alert]_vars

C10_Witness ==
  /\ fx.op = "handleFormSubmit" /\ fx.alert /\ fx.saves = 0
  /\ newChildForm.isOpen
  /\ newChildForm.title = <<" ">>
  /\ data = <<InitGoal>>

\* the paths of the data nodes that have done = 0 and lie below no node
\* other than the root that has done = 1; the root itself is always one
VisiblePaths(node) ==
  { p \in Paths(node) :
      \A n \in 1..Len(p) : NodeAt(node, SubSeq(p, 1, n)).done = 0 }

ViewIds == { ViewNodes(treeData[1])[k].id : k \in DOMAIN ViewNodes(treeData[1]) }

\* C22: after every handler and its effects, with the filter off the view
\* tree has the root first, no other node with done = 1, and exactly the
\* data nodes that have done = 0 together with all their ancestors below
\* the root; with the filter on it has every node of the data tree, in the
\* order of the data tree.
C22_ViewIsFilteredData ==
  (route = "tree" /\ Goal # <<>> /\ treeData # <<>>) =>
    LET view == ViewNodes(treeData[1]) IN
    /\ view[1].id = Goal[1].id
    /\ showCompletedNodes =>
         [k \in DOMAIN view |-> view[k].id] = IdList(Goal[1])
    /\ ~showCompletedNodes =>
         /\ \A k \in 2..Len(view) : view[k].done = 0
         /\ \A p \in VisiblePaths(Goal[1]) : NodeAt(Goal[1], p).id \in ViewIds
         /\ Len(view) = Cardinality(VisiblePaths(Goal[1]))

\* with the filter off a child with done = 0 is shown, and its child with
\* done = 1 is not
C22_Witness ==
  /\ route = "tree" /\ Goal # <<>> /\ treeData # <<>>
  /\ ~showCompletedNodes
  /\ Len(ViewNodes(treeData[1])) = 2
  /\ NodeCount(Goal[1]) = 3
  /\ Len(Goal[1].childs) = 1
  /\ Goal[1].childs[1].done = 0
  /\ Goal[1].childs[1].childs[1].done = 1

\* the children of a data node that the view shows
ShownChilds(node) ==
  IF showCompletedNodes THEN node.childs
  ELSE SelectSeq(node.childs, LAMBDA child : child.done = 0)

\* C23: after every handler and its effects, every node of the view tree
\* has the title, the description and the done flag of a data node with
\* its id, and its children are, in order, the shown children of that data
\* node; the root of the view stands for the goal itself.
C23_ViewShowsDataValues ==
  (route = "tree" /\ Goal # <<>> /\ treeData # <<>>) =>
    /\ treeData[1].title = Goal[1].title
    /\ treeData[1].done = Goal[1].done
    /\ \A k \in DOMAIN ViewNodes(treeData[1]) :
         LET v == ViewNodes(treeData[1])[k] IN
         \E p \in Paths(Goal[1]) :
           LET d == NodeAt(Goal[1], p) IN
           /\ d.id = v.id /\ d.title = v.title
           /\ d.description = v.description /\ d.done = v.done
           /\ Len(p) = v.level
           /\ [i \in DOMAIN v.children |-> v.children[i].id]
                = [i \in DOMAIN ShownChilds(d) |-> ShownChilds(d)[i].id]

\* an edit of the title of the root has been saved, the root is done and
\* has a child: the view shows the new title and the done flag
C23_Witness ==
  /\ fx.op = "handleSaveEditedNode" /\ fx.saves = 2
  /\ route = "tree" /\ Goal # <<>> /\ treeData # <<>>
  /\ Goal[1].title = <<"b">> /\ treeData[1].title = <<"b">>
  /\ Goal[1].done = 1 /\ treeData[1].done = 1
  /\ Len(Goal[1].childs) > 0

\* the data subtree with the title and description of the node at path p
\* replaced
RECURSIVE SetContentAt(_, _, _, _)
SetContentAt(node, p, title, description) ==
  IF p = <<>> THEN [node EXCEPT !.title = title, !.description = description]
  ELSE [node EXCEPT !.childs[p[1]] =
          SetContentAt(node.childs[p[1]], Tail(p), title, description)]

\* C25: a saved edit (nodeId, title, description) with a title that is not
\* blank replaces the title and the description of the node with that id;
\* the id, the done flag and the children of that node and every other node
\* are as before.  (An id that no node has changes nothing.)
C25_EditChangesOneNode ==
  [][(handleSaveEditedNode /\ ~IsBlank(editNodeModal.editedTitle))
       => \/ /\ editNodeModal.nodeId \notin Range(IdList(Goal[1]))
             /\ data' = data
          \/ \E p \in Paths(Goal[1]) :
               /\ NodeAt(Goal[1], p).id = editNodeModal.nodeId
               /\ FindGoal(data', GoalId)
                    = <<SetContentAt(Goal[1], p, editNodeModal.editedTitle,
                                     editNodeModal.description)>>]_vars

\* C26: when the response of an AI call is applied, the new data tree is the
\* data tree of that moment with the subtasks appended to the parent: what
\* add child, delete, edit and toggle done did since the submit is kept.
C26_AiWriteBackKeepsMutations ==
  [][\A k \in DOMAIN aiCalls, response \in MainAiResponses :
       aiResponse(k, response)
         => data' = addSubtasksToParent(data, aiCalls[k].parentId,
                      generateSubtasks(aiCalls[k].parentDescription,
                                       aiCalls[k].count, response, now))]_vars

\* paths of the nodes of a view tree, and the node at a path
RECURSIVE ViewPaths(_)
ViewPaths(node) ==
  { <<>> } \cup UNION { { <<i>> \o p : p \in ViewPaths(node.children[i]) }
                        : i \in DOMAIN node.children }

RECURSIVE ViewAt(_, _)
ViewAt(node, p) ==
  IF p = <<>> THEN node ELSE ViewAt(node.children[Head(p)], Tail(p))

\* a view node without its children
Shallow(node) == [node EXCEPT !.children = Len(node.children)]

\* the node at p is an immediate child of a node with the id that lies
\* below no other node with the id
ChildOfTarget(tree, p, parentId) ==
  /\ p # <<>>
  /\ ViewAt(tree, SubSeq(p, 1, Len(p) - 1)).id = parentId
  /\ \A n \in 0..(Len(p) - 2) : ViewAt(tree, SubSeq(p, 1, n)).id # parentId

\* C24: minimizeAllChildren(parentId, childIds), called by the button of a
\* drawn node with its children that are not minimized, sets isMinimized
\* of the immediate children of parentId with an id in childIds and leaves
\* every other flag and field of every view node, the data and the
\* persisted data as they are.
C24_MinimizeAllOnlyImmediateChildren ==
  [][\A parentId \in RenderedIds :
       minimizeAllChildren(parentId)
         => /\ data' = data /\ stored' = stored
            /\ ViewPaths(treeData'[1]) = ViewPaths(treeData[1])
            /\ \E n \in Range(RenderedNodes(treeData[1])) :
                 /\ n.id = parentId
                 /\ \A p \in ViewPaths(treeData[1]) :
                      LET before == ViewAt(treeData[1], p)
                          listed == \E i \in DOMAIN n.children :
                                      /\ n.children[i].id = before.id
                                      /\ ~n.children[i].isMinimized
                      IN Shallow(ViewAt(treeData'[1], p)) =
                           IF ChildOfTarget(treeData[1], p, parentId) /\ listed
                             THEN [Shallow(before) EXCEPT !.isMinimized = TRUE]
                             ELSE Shallow(before)]_vars

\* the button of the root has minimized its child; the child of that
\* child keeps its flag
C24_Witness ==
  /\ fx.op = "minimizeAllChildren" /\ fx.node = GoalId
  /\ treeData # <<>>
  /\ Len(treeData[1].children) = 1
  /\ treeData[1].children[1].isMinimized
  /\ Len(treeData[1].children[1].children) = 1
  /\ ~treeData[1].children[1].children[1].isMinimized
  /\ data = stored

\* the data subtree with done of the node at path p set to value
RECURSIVE SetDoneAt(_, _, _)
SetDoneAt(node, p, value) ==
  IF p = <<>> THEN [node EXCEPT !.done = value]
  ELSE [node EXCEPT !.childs[p[1]] = SetDoneAt(node.childs[p[1]], Tail(p), value)]

\* C11: toggle-done on a node that has done = 1 succeeds and sets the done
\* of that node to 0; the done, title, description and children of every
\* other node are as before.
C11_ToggleBackChangesOneFlag ==
  [][\A n \in RenderedIds :
       (/\ toggleDoneStatus(n)
        /\ findNode(treeData[1], n)[1].done = 1)
       => \E p \in Paths(Goal[1]) :
            /\ NodeAt(Goal[1], p).id = n
            /\ NodeAt(Goal[1], p).done = 1
            /\ FindGoal(data', GoalId) = <<SetDoneAt(Goal[1], p, 0)>>]_vars

ChildIds(node) == [i \in DOMAIN node.childs |-> node.childs[i].id]

Restrict(s, S) == SelectSeq(s, LAMBDA x : x \in S)

\* the ids in both sequences are in the same order in both, and every id
\* that is only in after comes behind every id that was in before
OrderKept(before, after) ==
  /\ Restrict(before, Range(after)) = Restrict(after, Range(before))
  /\ \A i, j \in DOMAIN after :
       (after[i] \notin Range(before) /\ after[j] \in Range(before)) => j < i

\* C12: after a mutation, every parent that is still there has its
\* surviving children in the order they had, and the children the mutation
\* brought in behind all children it had before.  (Ids are taken unique
\* before and after, so that an id names one node.)
C12_ChildOrderKept ==
  [][(/\ data' # data
      /\ UniqueIds(data) /\ UniqueIds(data'))
       => \A p \in Paths(Goal[1]) :
            \A q \in Paths(FindGoal(data', GoalId)[1]) :
              NodeAt(Goal[1], p).id = NodeAt(FindGoal(data', GoalId)[1], q).id
                => OrderKept(ChildIds(NodeAt(Goal[1], p)),
                             ChildIds(NodeAt(FindGoal(data', GoalId)[1], q)))]_vars

\* C13: whatever callOpenAI produced -- an array with fewer, as many or more
\* items than asked, a value that is no array, a text, a failure -- the
\* promise of generateSubtasks resolves with exactly count tasks, each with
\* done = 0 and no children.
C13_ExactlyCountFreshTasks ==
  returned # <<>> /\ returned.settled # "pending"
    => /\ returned.settled = "resolved"
       /\ returned.count >= 1
       /\ Len(returned.tasks) = returned.count
       /\ \A k \in DOMAIN returned.tasks :
            returned.tasks[k].done = 0 /\ returned.tasks[k].childs = <<>>

\* an array one item longer than asked was cut, and a failed call was served
\* by the fallback
C13_Witness ==
  /\ returned # <<>> /\ returned.settled = "resolved"
  /\ returned.count = 2
  /\ returned.response[1] = [kind |-> "array", items |-> 3]
  /\ Len(returned.tasks) = 2

-----------------------------------------------------------------------------
(* Properties of the viewport, checked under SpecWheel and SpecView.       *)

WheelEvent == \E deltaY \in DeltaYs, mouse \in MousePoints : handleWheel(deltaY, mouse)

\* C14 (as the code has it): a wheel event less than 150 ms after an accepted
\* wheel event changes neither scale nor offset, leaves the guard as it is
\* and queues nothing; so of two wheel events 10 ms apart the second never
\* changes the scale, and the scale changes at most once.
C14_WheelInsideGuardDropped ==
  [][(WheelEvent /\ wheelLog.sinceAccepted < 150)
       => /\ scale' = scale /\ position' = position
          /\ isZooming' = isZooming /\ timers' = timers
          /\ wheelLog'.dropped]_vars

\* a wheel event was dropped 10 ms after one that had moved the scale
C14_Witness ==
  /\ wheelLog.dropped /\ wheelLog.sinceAccepted = 10 /\ wheelLog.changed
  /\ scale = Frac(21, 20)

\* C14 (as stated): as above, and two wheel events 10 ms apart, the first of
\* them accepted, change the scale exactly once.
C14_TwoWheelsChangeOnce ==
  [][(WheelEvent /\ wheelLog.sinceAccepted < 150)
       => /\ scale' = scale /\ position' = position
          /\ isZooming' = isZooming /\ timers' = timers
          /\ (wheelLog.sinceAccepted = 10 => wheelLog.changed)]_vars

\* C30: whenever the wheel guard is set -- by any accepted wheel event,
\* also one that left the scale at its bound -- it is reset later on, and
\* with the guard reset the next wheel event is accepted.  Checked under
\* SpecWheelLive.
C30_GuardEventuallyReset == isZooming ~> ~isZooming

\* the last accepted wheel event found the scale at its upper bound and
\* left it there; 150 ms later the guard is reset and no timer is pending
C30_Witness ==
  /\ scale = maxScale /\ wheelLog # <<>> /\ ~wheelLog.changed
  /\ wheelLog.sinceAccepted = MaxAge
  /\ ~isZooming /\ timers = <<>>

\* C15: whatever sequence of zoomIn, zoomOut, wheel zoom, resetView,
\* fitToScreen and focusOnNode has run, 0.1 <= scale <= 2.0.
C15_ScaleWithinBounds ==
  scale # <<>> => ~FLess(scale, Frac(1, 10)) /\ ~FLess(FInt(2), scale)

\* the scale has been taken to its upper bound, a zoom button among the
\* operations
C15_Witness ==
  /\ scale = FInt(2) /\ wheelLog # <<>> /\ wheelLog.presses > 0

\* the scale fitToScreen computes for a tree of the root alone
RootOnlyFit(rect) ==
  LET width == FAdd(FInt(2 * halfBoxWidth),
                    FMul(FInt(2), FMax(Frac(rect.width * 15, 100), FInt(minPaddingX))))
      height == FAdd(FInt(2 * halfBoxHeight),
                     FMul(FInt(2), FMax(Frac(rect.height * 15, 100), FInt(minPaddingY))))
  IN FMax(FMin(FMin(FDiv(FInt(rect.width), width), FDiv(FInt(rect.height), height)),
               Frac(9, 10)), Frac(2, 5))

RootOnly == treeData # <<>> /\ treeData[1].children = <<>>

\* C16 (as the code has it): fitToScreen on a tree of the root alone sets the
\* scale to min(W / (300 + 2 max(0.15 W, 300)), H / (200 + 2 max(0.15 H, 200)))
\* clamped to [0.4, 0.9]: 0.9 exactly when the viewport is at least 810 wide
\* and 540 high, and less in a smaller viewport.
C16_RootOnlyFitScale ==
  [][(fitToScreen /\ RootOnly)
       => /\ scale' = RootOnlyFit(container)
          /\ (scale' = Frac(9, 10)) <=> (container.width >= 810 /\ container.height >= 540)
          /\ ~FLess(scale', Frac(2, 5)) /\ ~FLess(Frac(9, 10), scale')]_vars

\* fitToScreen has run on the root alone in a viewport 720 wide: scale 0.8
C16_Witness ==
  /\ RootOnly /\ container # <<>> /\ container.width = 720
  /\ scale = Frac(4, 5)
  /\ position = [x |-> FInt(360), y |-> FInt(190)]

\* C16 (as stated): in every viewport, fitToScreen on a tree of the root
\* alone sets the scale to exactly 0.9.
C16_RootOnlyFitIsMax ==
  [][(fitToScreen /\ RootOnly) => scale' = Frac(9, 10)]_vars

-----------------------------------------------------------------------------
(* Properties of the keyboard navigation, checked under SpecKeys.          *)

ArrowKeys == { "ArrowDown", "ArrowUp", "ArrowRight", "ArrowLeft" }

RenderedIdsOf(tree) == { n.id : n \in Range(RenderedNodes(tree[1])) }

\* C17: an arrow key moves the focus only to a node drawn as a full node:
\* not minimized, and below no collapsed or minimized node. (Stated for data
\* trees without repeated ids.)
C17_KeysFocusRenderedNodes ==
  [][\A key \in ArrowKeys :
       (/\ handleKeyDown(key) /\ UniqueIds(data)
        /\ focusedNodeId' # focusedNodeId)
       => focusedNodeId' \in RenderedIdsOf(treeData')]_vars

ParentsIn(tree) ==
  { n \in Range(ViewNodes(tree[1])) : Len(n.children) > 0 }

\* the focused id belongs to a node the key cannot leave: the last sibling
\* for ArrowRight, the first for ArrowLeft, the root for ArrowUp, and for
\* ArrowDown a leaf, a collapsed node or a node with minimized children only
OutOfRange(key) ==
  CASE key = "ArrowRight" ->
         \E p \in ParentsIn(treeData) : p.children[Len(p.children)].id = focusedNodeId
    [] key = "ArrowLeft" ->
         \E p \in ParentsIn(treeData) : p.children[1].id = focusedNodeId
    [] key = "ArrowUp" -> treeData[1].id = focusedNodeId
    [] key = "ArrowDown" ->
         \E n \in Range(ViewNodes(treeData[1])) :
           /\ n.id = focusedNodeId
           /\ \/ n.isCollapsed
              \/ \A i \in DOMAIN n.children : n.children[i].isMinimized
    [] OTHER -> FALSE

\* C18: a key pressed out of range is a no-op: focus, scale, offset, view
\* tree and data tree stay as they are and no delayed focus is scheduled.
C18_OutOfRangeIsNoOp ==
  [][\A key \in ArrowKeys :
       (handleKeyDown(key) /\ OutOfRange(key))
       => UNCHANGED <<focusedNodeId, scale, position, treeData, data, timers>>]_vars

\* C19: the space bar, pressed while a node is focused, flips the collapsed
\* flag of that node and no other flag.
C19_SpaceFlipsCollapsed ==
  [][handleKeyDown(" ")
       => treeData' = <<updateNodeCollapse(treeData[1], focusedNodeId, FALSE)>>]_vars

\* C27: the focused node, when there is one, is a node of the view tree
\* that is drawn as a full node: not minimized, and below no collapsed or
\* minimized node.
C27_FocusOnRenderedNode ==
  (treeData # <<>> /\ focusedNodeId # NoId) => focusedNodeId \in RenderedIds

\* C28: a key press that moves the focus sets it at once, so a delayed
\* focus that fires finds the focus on the target of the latest press and
\* leaves it there: no timer of an earlier press moves it back.  Checked
\* under SpecFocus.
C28_TimersKeepLatestFocus ==
  [][\A k \in DOMAIN timers :
       focusLater(k) => focusedNodeId' = focusedNodeId]_vars

-----------------------------------------------------------------------------
(* Properties of saveData, checked under SpecSave.                         *)

Sent(goals) == gistCalls' = Append(gistCalls, [data |-> goals, at |-> now])

\* C20 (as the code has it): a saveData call writes the data to local
\* storage unless the storage refuses the write, and after the write it
\* sends the update of the gist exactly when the flush is not skipped and
\* the force flag is set or more than 300000 ms have passed since the
\* recorded flush; a call whose write was refused sends nothing.
C20_FlushWhenForcedOrOverdue ==
  [][\A goals \in SavedGoals, force \in BOOLEAN, skip \in BOOLEAN :
       /\ saveData(goals, force, skip, TRUE)
            => /\ stored' = goals
               /\ Sent(goals) <=> (~skip /\ (force \/ now - lastGistUpdate > 300000))
               /\ ~Sent(goals) => gistCalls' = gistCalls
       /\ saveData(goals, force, skip, FALSE)
            => stored' = stored /\ gistCalls' = gistCalls]_vars

\* a call, neither forced nor skipped, five minutes to the millisecond after
\* the recorded flush: the data is written and nothing is sent
C20_Witness ==
  /\ returned # <<>> /\ returned.op = "saveData"
  /\ ~returned.force /\ ~returned.skip /\ returned.stores
  /\ returned.elapsed = 300000 /\ ~returned.sent
  /\ stored = returned.data /\ gistCalls = <<>>

\* C20 (as stated): a saveData call writes the data to local storage and
\* sends the update exactly when the flush is not skipped and the force flag
\* is set or at least 300000 ms have passed since the recorded flush. (Read
\* for the calls whose write the storage accepts.)
C20_FlushWhenForcedOrFiveMinutes ==
  [][\A goals \in SavedGoals, force \in BOOLEAN, skip \in BOOLEAN :
       saveData(goals, force, skip, TRUE)
         => /\ stored' = goals
            /\ Sent(goals) <=> (~skip /\ (force \/ now - lastGistUpdate >= 300000))]_vars

-----------------------------------------------------------------------------
(* Properties of the saves of a data change, checked under SpecFlush.      *)

\* C21: when the update of the gist fails, the promise of saveData resolves,
\* local storage and the data in memory stay as the save left them, and
\* the save had written the data of the mutation to both; the gist and the
\* recorded flush time stay as they were.
C21_FailedFlushKeepsLocalData ==
  [][/\ \A k \in DOMAIN gistCalls :
          updateGistSettles(k, FALSE)
            => /\ returned'.settled = "resolved"
               /\ stored' = stored /\ data' = data
               /\ gist' = gist /\ lastGistUpdate' = lastGistUpdate
     /\ \A goals \in SavedGoals, skip \in SkipFlags :
          setDataWithSave(goals, skip, TRUE)
            => /\ data' = goals /\ stored' = goals
               /\ \A k \in DOMAIN gistCalls' :
                    k > Len(gistCalls) => gistCalls'[k].data = goals]_vars

\* the flush of a change to the wide goal has failed: the call has resolved,
\* memory and local storage hold the wide goal, the gist the old one
C21_Witness ==
  /\ returned # <<>> /\ returned.op = "updateGist"
  /\ ~returned.ok /\ returned.settled = "resolved"
  /\ returned.data = <<WideGoal>>
  /\ data = <<WideGoal>> /\ stored = <<WideGoal>>
  /\ gist = <<InitGoal>>

\* C29: no two updates of the gist, none of them forced, are sent less than
\* five minutes apart.  (Read on the updates that await their response:
\* the saves of SpecFlush force none.)
C29_UnforcedFlushesFiveMinutesApart ==
  \A j, k \in DOMAIN gistCalls :
    j < k => gistCalls[k].at - gistCalls[j].at >= fiveMinutes

-----------------------------------------------------------------------------
(* Properties of the layout, checked under SpecLayout.                      *)

halfNodeWidth == nodeWidth \div 2

Parent(id) == SubSeq(id, 1, Len(id) - 1)

Siblings(a, b) == a # b /\ Len(a) = Len(b) /\ Len(a) > 1 /\ Parent(a) = Parent(b)

\* the x coordinates of the positioned nodes of the subtree of id
SubtreeXs(id) == { lpos[i].x : i \in { j \in DOMAIN lpos : IsPrefix(id, lpos[j].id) } }

\* [min x - nodeWidth/2, max x + nodeWidth/2] of subtree a lies wholly to
\* the left of that of subtree b
SpanLeftOf(a, b) ==
  \A xa \in SubtreeXs(a), xb \in SubtreeXs(b) :
    FLess(FAdd(xa, FInt(halfNodeWidth)), FSub(xb, FInt(halfNodeWidth)))

PositionedIds == { lpos[i].id : i \in DOMAIN lpos }

\* C8: after measure and place, for any combination of isCollapsed and
\* isMinimized flags, the horizontal spans of the subtrees of two
\* non-minimized siblings do not intersect.
C8_SiblingSpansDisjoint ==
  lpc = "placed" =>
    \A a, b \in PositionedIds :
      Siblings(a, b) => SpanLeftOf(a, b) \/ SpanLeftOf(b, a)

AllExpanded(node) ==
  /\ ~node.isCollapsed
  /\ ~node.isMinimized
  /\ \A i \in DOMAIN node.children :
       /\ ~node.children[i].isCollapsed
       /\ ~node.children[i].isMinimized
       /\ \A j \in DOMAIN node.children[i].children :
            /\ ~node.children[i].children[j].isCollapsed
            /\ ~node.children[i].children[j].isMinimized

\* a root with three children, each with two leaf children, all expanded
IsThreeByTwo(node) ==
  /\ Len(node.children) = 3
  /\ \A i \in DOMAIN node.children : Len(node.children[i].children) = 2
  /\ AllExpanded(node)

Measured == lpc \in {"measured", "placed"}

\* C9 (as the code has it): measure on a tree of three children with two
\* leaf children each, all expanded, reports count 10: the six leaves, the
\* three children and the root.
C9_ThreeByTwoCountsTen ==
  (Measured /\ IsThreeByTwo(ltree[1])) => ldims[1].count = 10

C9_Witness ==
  /\ Measured
  /\ IsThreeByTwo(ltree[1])
  /\ ldims[1].count = 10
  /\ ldims[1].width = 6 * nodeSpacing

\* C9 (as stated): measure on that tree reports count 9.
C9_ThreeByTwoCountsNine ==
  (Measured /\ IsThreeByTwo(ltree[1])) => ldims[1].count = 9

====
